---- MODULE Spec2Model ----
(***************************************************************************)
(* Model of the two flows of AI-Job-Match:                                 *)
(*   - the match scoring pipeline, lib/ai.ts scoreJobsForResume, with      *)
(*     lib/utils.ts withRetry;                                             *)
(*   - the job sync reconciler, lib/jobSync.ts syncJobsToDatabase, with    *)
(*     lib/browserAIJobs.ts fetchLatestJobs.                               *)
(* Strings that the code inspects character by character (keywords, job    *)
(* texts) are sequences of one-character strings.  JSON values that reach  *)
(* Math.round are tagged records; numbers are carried in halves so that    *)
(* rounding is visible.                                                    *)
(***************************************************************************)
EXTENDS Integers, Sequences, FiniteSets, TLC

(***************************************************************************)
(* Bounds of the model.                                                    *)
(***************************************************************************)
MaxScoredJobs == 3
MaxEntries == 2
MaxKeywords == 2
MaxRuns == 3
MaxChanges == 1
MaxRawJobs == 2
MaxFaults == 1
MaxFallbackJobs == 1
MaxConcurrentRuns == 2
MaxTicks == 4
MaxOtherRequests == 2
MaxSeveralRuns == 1
MaxConfiguredRuns == 1
MaxEmptyBatches == 3

(***************************************************************************)
(* Generic helpers.                                                        *)
(***************************************************************************)
SeqsUpTo(S, n) == UNION {[1..k -> S] : k \in 0..n}

Range(s) == {s[k] : k \in 1..Len(s)}

Min(a, b) == IF a < b THEN a ELSE b

(***************************************************************************)
(* JavaScript values in the position of a score.  v is in halves: Num(171) *)
(* is the JSON number 85.5.  NumStr is a numeric string such as "85", Str  *)
(* a non-numeric string such as "high", Undef a missing property.          *)
(***************************************************************************)
Num(h) == [t |-> "num", v |-> h]

NumStr(h) == [t |-> "numstr", v |-> h]

Str == [t |-> "str", v |-> 0]

Null == [t |-> "null", v |-> 0]

Undef == [t |-> "undef", v |-> 0]

\* x ?? d
Nullish(x) == x.t \in {"null", "undef"}

\* the truthiness that x || d tests: 0, null and undefined are falsy,
\* every non-empty string (also "0") is truthy
Truthy(x) ==
    CASE x.t = "num" -> x.v # 0
      [] x.t \in {"numstr", "str"} -> TRUE
      [] OTHER -> FALSE

\* Results of the Math functions: an integer or NaN.
Int_(n) == [nan |-> FALSE, n |-> n]

NaN == [nan |-> TRUE, n |-> 0]

\* Math.round(x) = floor(x + 0.5) after ToNumber; a non-numeric string is NaN
MathRound(x) ==
    CASE x.t \in {"num", "numstr"} -> Int_((x.v + 1) \div 2)
      [] x.t = "null" -> Int_(0)
      [] OTHER -> NaN

\* Math.min(a, y) and Math.max(a, y) for an integer a: NaN is contagious
MathMin(a, y) == IF y.nan THEN NaN ELSE Int_(IF a < y.n THEN a ELSE y.n)

MathMax(a, y) == IF y.nan THEN NaN ELSE Int_(IF a > y.n THEN a ELSE y.n)

(***************************************************************************)
(* Text: toLowerCase, trim, includes.                                      *)
(***************************************************************************)
Chars == {"p", "P", "r", " "}

toLowerCaseChar(c) == IF c = "P" THEN "p" ELSE c

toLowerCase(s) == [k \in 1..Len(s) |-> toLowerCaseChar(s[k])]

\* keyword.trim() is a non-empty string
trim(s) == \E k \in 1..Len(s) : s[k] # " "

\* text.includes(kw)
includes(text, kw) ==
    \E k \in 0..(Len(text) - Len(kw)) :
        \A d \in 1..Len(kw) : text[k + d] = kw[d]

(***************************************************************************)
(* lib/utils.ts withRetry, as scoreJobsForResume configures it.            *)
(***************************************************************************)
maxRetries == 3

initialDelay == 1000

maxDelay == 10000

\* an error of the OpenAI client: hasStatus is '"status" in error'
Err(s) == [hasStatus |-> s # 0, status |-> s]

\* the retryable that withRetry uses when its caller passes none: an error
\* without a status is retried
retryableDefault(error) ==
    IF error.hasStatus
    THEN error.status = 429 \/ error.status >= 500
    ELSE TRUE

retryable(error) ==
    IF error.hasStatus
    THEN error.status = 429 \/ error.status >= 500
    ELSE FALSE

(***************************************************************************)
(* The match scoring pipeline: lib/ai.ts scoreJobsForResume.               *)
(*                                                                         *)
(* resume    the first argument: a raw string, or a ParsedResume of which  *)
(*           only keywords (optional) and skills are read by the code      *)
(*           that decides a score                                          *)
(* jobs      the second argument, a sequence of                            *)
(*           [id, title, company, fullDescription, shortDescription]       *)
(* sPc       "start" | "call" (an attempt of the request is outstanding)   *)
(*           | "backoff" (withRetry sleeps) | "done" (returned)            *)
(* attempt, delay   the loop variables of withRetry                        *)
(* attempts, waits  how many requests were issued, how many sleeps ended   *)
(* lastError the error of the last failed attempt                          *)
(* response  the body of the completion that arrived                       *)
(* path      "none" | "empty" | "llm" | "fallback": the return statement   *)
(*           that produced result                                          *)
(* result    the returned sequence of [jobId, score]                       *)
(* matchResponse  what matchJobsHandler, the caller in the match route,    *)
(*           answers with the result: sent, jobs (the sorted scoredJobs,   *)
(*           of which id and matchScore are kept) and totalJobs            *)
(***************************************************************************)
VARIABLES resume, jobs, sPc, attempt, delay, attempts, waits, lastError,
          response, path, result, matchResponse

scoreVars == <<resume, jobs, sPc, attempt, delay, attempts, waits, lastError,
               response, path, result, matchResponse>>

\* ids of the persisted jobs handed to the pipeline: pairwise distinct
JobIds == <<"j1", "j2", "j3", "j4">>

\* keywords = resume.keywords || resume.skills || []
keywords(r) ==
    IF r.isString THEN <<>>
    ELSE IF r.hasKeywords THEN r.keywords
    ELSE r.skills

\* job.fullDescription || job.shortDescription || ""
description(job) ==
    IF job.fullDescription # <<>> THEN job.fullDescription
    ELSE job.shortDescription

\* `${job.title} ${job.company} ${description}`.toLowerCase()
jobText(job) ==
    toLowerCase(job.title \o <<" ">> \o job.company \o <<" ">> \o description(job))

\* keywordMatches without keyword.toLowerCase()
keywordMatchesCaseSensitive(kws, job) ==
    Cardinality({k \in 1..Len(kws) :
        /\ kws[k] # <<>>
        /\ trim(kws[k])
        /\ includes(jobText(job), kws[k])})

\* keywords.filter(keyword => keyword && keyword.trim() &&
\*                 jobText.includes(keyword.toLowerCase())).length
keywordMatches(kws, job) ==
    Cardinality({k \in 1..Len(kws) :
        /\ kws[k] # <<>>
        /\ trim(kws[k])
        /\ includes(jobText(job), toLowerCase(kws[k]))})

\* Math.round(keywords.length > 0
\*     ? Math.min(100, 50 + (keywordMatches / keywords.length) * 50) : 50)
\* computed exactly: 50 + 50m/n = (50n + 50m)/n, rounded half up
matchPercentage(kws, job) ==
    LET n == Len(kws)
        m == keywordMatches(kws, job)
    IN  IF n > 0
        THEN IF 50 * n + 50 * m > 100 * n THEN 100
             ELSE (2 * (50 * n + 50 * m) + n) \div (2 * n)
        ELSE 50

\* the catch block of scoreJobsForResume
fallbackScores(r, js) ==
    [k \in 1..Len(js) |->
        [jobId |-> js[k].id, score |-> Int_(matchPercentage(keywords(r), js[k]))]]

(***************************************************************************)
(* The completion body.  kind is                                           *)
(*   "nonjson"    content that JSON.parse rejects ("not json")             *)
(*   "nochoices"  a completion without choices[0]                          *)
(*   "jsonnull"   the JSON text null                                       *)
(*   "scores"     { "scores": items }                                      *)
(*   "array"      items, a bare array                                      *)
(*   "keyed"      an object whose keys are job ids; also {} and an empty   *)
(*                content, which the code reads as "{}"                    *)
(* An item of "scores"/"array" is [isNull, jobId, score]; an item of       *)
(* "keyed" is [jobId, isObj, val]: the key, and the value val or the       *)
(* object { score: val }.                                                  *)
(***************************************************************************)
Body(kind, items) == [kind |-> kind, items |-> items]

NoBody == Body("none", <<>>)

\* JSON.parse and the property reads of lines 124-154 throw
parseThrows(body) ==
    \/ body.kind \in {"nonjson", "nochoices", "jsonnull"}
    \/ /\ body.kind \in {"scores", "array"}
       /\ \E k \in 1..Len(body.items) : body.items[k].isNull

\* typeof data === "number" ? data : (data?.score || 50)
keyedScore(item) ==
    IF ~item.isObj
    THEN IF item.val.t = "num" THEN item.val ELSE Num(100)
    ELSE IF Truthy(item.val) THEN item.val ELSE Num(100)

\* lines 136-150: the three accepted shapes, as a list of {jobId, score}
extractScores(body) ==
    IF body.kind \in {"scores", "array"} THEN body.items
    ELSE [k \in 1..Len(body.items) |->
            [isNull |-> FALSE, jobId |-> body.items[k].jobId,
             score |-> keyedScore(body.items[k])]]

\* scores.find(s => s.jobId === id): the first match, 0 when there is none
find(scores, id) ==
    IF \E k \in 1..Len(scores) : scores[k].jobId = id
    THEN CHOOSE k \in 1..Len(scores) :
            /\ scores[k].jobId = id
            /\ \A l \in 1..(k - 1) : scores[l].jobId # id
    ELSE 0

\* scoreData?.score ?? 50
scoreOrDefault(scores, id) ==
    LET k == find(scores, id)
    IN  IF k = 0 THEN Num(100)
        ELSE IF Nullish(scores[k].score) THEN Num(100)
        ELSE scores[k].score

\* Math.max(0, Math.min(100, Math.round(score)))
validatedScore(score) == MathMax(0, MathMin(100, MathRound(score)))

\* lines 162-173
llmScores(body, js) ==
    LET scores == extractScores(body)
    IN  [k \in 1..Len(js) |->
            [jobId |-> js[k].id,
             score |-> validatedScore(scoreOrDefault(scores, js[k].id))]]

(***************************************************************************)
(* app/api/jobs/match/route.ts, lines 83-116: the scores are merged into   *)
(* the jobs and the jobs are sorted.                                       *)
(***************************************************************************)
\* lines 84-105: matchScore 0 for a job without a score, else
\* Math.max(0, Math.min(100, Math.round(scoreData.score))); Math.round
\* leaves the integer or NaN that scoreJobsForResume returned as it is
mergeScores(js, scores) ==
    [k \in 1..Len(js) |->
        [id |-> js[k].id,
         matchScore |-> IF find(scores, js[k].id) = 0 THEN Int_(0)
                        ELSE MathMax(0, MathMin(100, scores[find(scores, js[k].id)].score))]]

\* (a, b) => b.matchScore - a.matchScore as Array.prototype.sort reads it:
\* a NaN result counts as +0
comparefn(a, b) ==
    IF a.matchScore.nan \/ b.matchScore.nan THEN 0
    ELSE b.matchScore.n - a.matchScore.n

\* comparefn is a consistent comparator for the elements of list
consistentComparator(list) ==
    \A a, b, c \in Range(list) :
        /\ (comparefn(a, b) = 0 /\ comparefn(b, c) = 0) => comparefn(a, c) = 0
        /\ (comparefn(a, b) < 0 /\ comparefn(b, c) < 0) => comparefn(a, c) < 0
        /\ (comparefn(a, b) > 0 /\ comparefn(b, c) > 0) => comparefn(a, c) > 0

Orders(n) ==
    {p \in [1..n -> 1..n] : \A k, l \in 1..n : k # l => p[k] # p[l]}

\* the order of a stable sort: p[k] is the input position of output k
stableOrder(list, p) ==
    \A k, l \in 1..Len(list) :
        k < l => \/ comparefn(list[p[k]], list[p[l]]) < 0
                 \/ comparefn(list[p[k]], list[p[l]]) = 0 /\ p[k] < p[l]

\* list.sort(comparefn): the stable sort for a consistent comparator, an
\* implementation-defined order of the elements otherwise
sort(list) ==
    LET orders == IF consistentComparator(list)
                  THEN {p \in Orders(Len(list)) : stableOrder(list, p)}
                  ELSE Orders(Len(list))
    IN  {[k \in 1..Len(list) |-> list[p[k]]] : p \in orders}

NoMatchResponse == [sent |-> FALSE, jobs |-> <<>>, totalJobs |-> 0]

(***************************************************************************)
(* The job sync reconciler: lib/jobSync.ts syncJobsToDatabase, fed by      *)
(* lib/browserAIJobs.ts fetchLatestJobs.                                   *)
(*                                                                         *)
(* store   the Job table, a sequence of rows; a row's id is its position   *)
(*         (sync never deletes)                                            *)
(* clock   what new Date() returns; it advances when a run starts          *)
(* run     per request p, the locals of its syncJobsToDatabase call:       *)
(*         pc "idle" | "fetch" | "batch" | "done"; batchSize; scrapedJobs; *)
(*         i, the loop variable; itemPc and existingJob, per item of the   *)
(*         current batch the position of its async callback ("lookup":     *)
(*         findFirst outstanding, "write": update/create outstanding,      *)
(*         "done") and the row findFirst gave it (0 for null); created,    *)
(*         updated, errors; the returned total; and for the properties     *)
(*         before (the store when the run started), faults (persistence    *)
(*         operations that threw), env (what the scraping collaborator     *)
(*         did)                                                            *)
(* nRuns   runs started so far                                             *)
(* upstream  what the scraping collaborator answers to a fetch; changes,   *)
(*         how often it has changed                                        *)
(* last    the locals of the run that returned last, with after, the       *)
(*         store when it returned                                          *)
(***************************************************************************)
VARIABLES store, clock, run, nRuns, last, upstream, changes

syncVars == <<store, clock, run, nRuns, last, upstream, changes>>

(***************************************************************************)
(* The HTTP routes: lib/rate-limit.ts RateLimiter and withRateLimit, the   *)
(* match endpoint app/api/jobs/match, the sync endpoint app/api/jobs/sync. *)
(*                                                                         *)
(* limiter   the RateLimiter object the behaviour is about: "api", "auth"  *)
(*           or "ai" (the three share no state)                            *)
(* rlStore   its this.store: per client identifier an entry                *)
(*           [present, count, resetAt], present FALSE for no entry         *)
(* dateNow   Date.now(), in ms; ticks, how often it has advanced           *)
(* recent    per client, the times at which withRateLimit invoked the      *)
(*           handler and that are not before dateNow - windowMs            *)
(* resp      the last response: client, request, status, and whether the   *)
(*           handler was invoked                                           *)
(***************************************************************************)
VARIABLES limiter, rlStore, dateNow, ticks, recent, resp

httpVars == <<limiter, rlStore, dateNow, ticks, recent, resp>>

(***************************************************************************)
(* lib/browseAiClient.ts and lib/browserAIJobs.ts: one call of             *)
(* fetchJobsFromRobot with its waitForTaskCompletion.                      *)
(*                                                                         *)
(* robotCall  the locals of the call: pc "idle" | "getRobots" | "runTask"  *)
(*            | "poll" (getRobotTask outstanding) | "sleep" | "done";      *)
(*            startTime; tasks and polls, how many runRobotTask and        *)
(*            getRobotTask requests were issued; status, what the last     *)
(*            poll reported; wait, how waitForTaskCompletion ended         *)
(*            ("returned", "failed", "timeout", or "error" for a poll      *)
(*            request that threw); endTime, Date.now() when it ended;      *)
(*            returned, what fetchJobsFromRobot returned                   *)
(***************************************************************************)
VARIABLES robotCall

robotVars == <<robotCall>>

(***************************************************************************)
(* lib/ai.ts: one call of one of its functions that request a completion.  *)
(*                                                                         *)
(* aiCall  the call: fn, the function; pc "idle" | "call" (a request is    *)
(*         outstanding) | "backoff" | "done"; attempt and delay, the loop  *)
(*         variables of withRetry; errors, the statuses of the requests    *)
(*         that failed, in order; completion, "none" | "readable" |        *)
(*         "unreadable" (the function's JSON.parse and property reads      *)
(*         throw on it); outcome, "none" | "result" (the function returned *)
(*         what the completion says) | "fallback" | "error" (it threw)     *)
(***************************************************************************)
VARIABLES aiCall

aiVars == <<aiCall>>

(***************************************************************************)
(* The resumes of the database and one request to a match endpoint.        *)
(* resumes: resume id -> [userId, content]                                 *)
(* matchCall: pc, "idle" | "scoring" (scoreJobsForResume is awaited) |     *)
(*         "replied"; req, the request; resume, the row findFirst gave;    *)
(*         prompts, the resume contents handed to scoreJobsForResume;      *)
(*         status and body of the response                                 *)
(***************************************************************************)
VARIABLES resumes, matchCall

ownerVars == <<resumes, matchCall>>

vars == <<scoreVars, syncVars, httpVars, robotVars, aiVars, ownerVars>>

(***************************************************************************)
(* lib/rate-limit.ts                                                       *)
(***************************************************************************)
\* client identifiers (getClientId: the caller's IP)
Clients == {"c1", "c2"}

\* new RateLimiter(10, 10000), new RateLimiter(5, 60000),
\* new RateLimiter(3, 60000)
rateLimiters ==
    [api |-> [maxRequests |-> 10, windowMs |-> 10000],
     auth |-> [maxRequests |-> 5, windowMs |-> 60000],
     ai |-> [maxRequests |-> 3, windowMs |-> 60000]]

NoEntry == [present |-> FALSE, count |-> 0, resetAt |-> 0]

\* RateLimiter.check that refuses only when count > maxRequests
checkOffByOne(lim, entry, t) ==
    IF ~entry.present \/ entry.resetAt < t
    THEN [allowed |-> TRUE, remaining |-> lim.maxRequests - 1, resetAt |-> t + lim.windowMs,
          entry |-> [present |-> TRUE, count |-> 1, resetAt |-> t + lim.windowMs]]
    ELSE IF entry.count > lim.maxRequests
    THEN [allowed |-> FALSE, remaining |-> 0, resetAt |-> entry.resetAt, entry |-> entry]
    ELSE [allowed |-> TRUE, remaining |-> lim.maxRequests - (entry.count + 1),
          resetAt |-> entry.resetAt,
          entry |-> [entry EXCEPT !.count = @ + 1]]

\* RateLimiter.check(identifier) at time t on the entry of the identifier:
\* the returned {allowed, remaining, resetAt} and the entry it leaves
check(lim, entry, t) ==
    IF ~entry.present \/ entry.resetAt < t
    THEN [allowed |-> TRUE, remaining |-> lim.maxRequests - 1, resetAt |-> t + lim.windowMs,
          entry |-> [present |-> TRUE, count |-> 1, resetAt |-> t + lim.windowMs]]
    ELSE IF entry.count >= lim.maxRequests
    THEN [allowed |-> FALSE, remaining |-> 0, resetAt |-> entry.resetAt, entry |-> entry]
    ELSE [allowed |-> TRUE, remaining |-> lim.maxRequests - (entry.count + 1),
          resetAt |-> entry.resetAt,
          entry |-> [entry EXCEPT !.count = @ + 1]]

\* RateLimiter.cleanup: entries whose window is over are deleted
cleanup(st, t) ==
    [c \in DOMAIN st |-> IF st[c].present /\ st[c].resetAt < t THEN NoEntry ELSE st[c]]

(***************************************************************************)
(* app/api/jobs/match/route.ts.  A request to the match endpoint is        *)
(* [method, authenticated, hasResumeId, resumeFound, contentParses,        *)
(* jobsEmpty, dbThrows]: hasResumeId is a body that passes jobMatchSchema  *)
(* (POST) or a resumeId query parameter (GET); resumeFound, contentParses, *)
(* jobsEmpty and dbThrows are what the database holds and does for it.     *)
(***************************************************************************)
matchJobsHandler(req) ==
    IF req.dbThrows THEN 500
    ELSE IF ~req.resumeFound THEN 404
    ELSE IF ~req.contentParses THEN 400
    ELSE IF req.jobsEmpty THEN 404
    ELSE 200

matchPOST(req) ==
    IF ~req.authenticated THEN 401
    ELSE IF ~req.hasResumeId THEN 400
    ELSE matchJobsHandler(req)

matchGET(req) ==
    IF ~req.hasResumeId THEN 400
    ELSE IF ~req.authenticated THEN 401
    ELSE matchJobsHandler(req)

matchRoute(req) == IF req.method = "POST" THEN matchPOST(req) ELSE matchGET(req)

(***************************************************************************)
(* app/api/jobs/sync/route.ts: the reply of POST and GET to what           *)
(* syncJobsToDatabase did                                                  *)
(***************************************************************************)
NoReply ==
    [status |-> 0, success |-> FALSE, created |-> 0, updated |-> 0, total |-> 0,
     errors |-> <<>>]

\* syncRoute that reports a run with errors as failed
syncRouteStrict(threw, r) ==
    IF threw \/ r.errors # <<>>
    THEN [NoReply EXCEPT !.status = 500]
    ELSE [status |-> 200, success |-> TRUE, created |-> r.created,
          updated |-> r.updated, total |-> r.total, errors |-> r.errors]

syncRoute(threw, r) ==
    IF threw
    THEN [NoReply EXCEPT !.status = 500]
    ELSE [status |-> 200, success |-> TRUE, created |-> r.created,
          updated |-> r.updated, total |-> r.total, errors |-> r.errors]

Procs == {1, 2}

\* a || d on strings
orDefault(a, d) == IF a # "" THEN a ELSE d

\* (job.description || job.summary || "").substring(0, 150) + "..." || ""
shortOf(text) == [text |-> text, ellipsis |-> TRUE]

\* lines 78-86 of browserAIJobs.ts: a captured item to a ScrapedJob
toScrapedJob(raw) ==
    [title |-> orDefault(raw.title, "Untitled Role"),
     company |-> orDefault(raw.company, "Unknown Company"),
     location |-> orDefault(raw.location, "Remote"),
     jobType |-> orDefault(raw.jobType, "Full-time"),
     shortDescription |-> shortOf(raw.description),
     fullDescription |-> raw.description,
     sourceUrl |-> orDefault(raw.url, "#")]

\* fetchJobsFromRobot: a robot that is not found, whose task fails or times
\* out, or whose API call throws, gives []
fetchJobsFromRobot(robot) ==
    IF ~robot.ok THEN <<>>
    ELSE [k \in 1..Len(robot.rawJobs) |-> toScrapedJob(robot.rawJobs[k])]

\* the two hard-coded postings; their description texts are abbreviated
getMockJobs ==
    << [title |-> "Senior Frontend Engineer (Mock)", company |-> "TechCorp AI",
        location |-> "Remote", jobType |-> "Full-time",
        shortDescription |-> [text |-> "mock short 1", ellipsis |-> FALSE],
        fullDescription |-> "mock full 1",
        sourceUrl |-> "https://example.com/jobs/1"],
       [title |-> "Full Stack Developer (Mock)", company |-> "StartupX",
        location |-> "San Francisco, CA", jobType |-> "Hybrid",
        shortDescription |-> [text |-> "mock short 2", ellipsis |-> FALSE],
        fullDescription |-> "mock full 2",
        sourceUrl |-> "https://example.com/jobs/2"] >>

RECURSIVE flat(_)
flat(arrays) ==
    IF arrays = <<>> THEN <<>>
    ELSE Head(arrays) \o flat(Tail(arrays))

sameTriple(a, b) ==
    /\ a.title = b.title
    /\ a.company = b.company
    /\ a.location = b.location

\* allJobs.filter((job, index, self) => index === self.findIndex(same triple))
RECURSIVE uniqueJobs(_)
uniqueJobs(all) ==
    IF all = <<>> THEN <<>>
    ELSE LET front == uniqueJobs(SubSeq(all, 1, Len(all) - 1))
             job == all[Len(all)]
         IN  IF \E k \in 1..(Len(all) - 1) : sameTriple(all[k], job)
             THEN front
             ELSE Append(front, job)

\* fetchLatestJobs: env is what the collaborator does, [apiKey, robots], one
\* outcome [ok, rawJobs] per configured robot id
fetchLatestJobs(env) ==
    IF ~env.apiKey THEN getMockJobs
    ELSE IF Len(env.robots) = 0 THEN getMockJobs
    ELSE LET jobArrays == [k \in 1..Len(env.robots) |-> fetchJobsFromRobot(env.robots[k])]
             unique == uniqueJobs(flat(jobArrays))
         IN  IF Len(unique) = 0 THEN getMockJobs ELSE unique

(***************************************************************************)
(* lib/apifyClient.ts.  kv is what the environment and the Apify key-value *)
(* store hold for a scraper: storeId and apiToken (the two environment     *)
(* variables are set), answer (what the request for the record brings),    *)
(* batchSize (the batchSize property of the stored configuration, 0 when   *)
(* it has none or 0).  answer is                                           *)
(*   "notFound"  status 404                                                *)
(*   "error"     another status that is not ok                             *)
(*   "network"   fetch rejects                                             *)
(*   "badJson"   content type JSON and a body that response.json() rejects *)
(*               (response.text() then rejects too, the body being used)   *)
(*   "badText"   another content type, a body that is not JSON             *)
(*   "text"      another content type, the configuration as JSON text      *)
(*   "json"      the configuration, content type JSON                      *)
(***************************************************************************)
KvAnswers == {"notFound", "error", "network", "badJson", "badText", "text", "json"}

\* getApifyRecord: what it throws ("none" for a return), and the record
getApifyRecord(kv) ==
    [threw |-> IF ~kv.apiToken THEN "Error"
               ELSE IF kv.answer = "notFound" THEN "ApifyRecordNotFoundError"
               ELSE IF kv.answer \in {"error", "network", "badJson"} THEN "Error"
               ELSE "none",
     isString |-> kv.answer \in {"badText", "text"},
     parses |-> kv.answer = "text",
     batchSize |-> kv.batchSize]

NullConfig == [threw |-> FALSE, isNull |-> TRUE, batchSize |-> 0]

\* getScraperConfig whose catch rethrows what is not a missing record
getScraperConfigRethrows(kv) ==
    IF ~kv.storeId THEN NullConfig
    ELSE LET config == getApifyRecord(kv)
         IN  IF config.threw = "ApifyRecordNotFoundError" THEN NullConfig
             ELSE IF config.threw # "none" THEN [NullConfig EXCEPT !.threw = TRUE]
             ELSE IF config.isString /\ ~config.parses THEN NullConfig
             ELSE [threw |-> FALSE, isNull |-> FALSE, batchSize |-> config.batchSize]

\* getScraperConfig(scraperName): whether it throws, and the configuration
\* or null
getScraperConfig(kv) ==
    IF ~kv.storeId THEN NullConfig
    ELSE LET config == getApifyRecord(kv)
         IN  IF config.threw = "ApifyRecordNotFoundError" THEN NullConfig
             ELSE IF config.threw # "none" THEN NullConfig
             ELSE IF config.isString /\ ~config.parses THEN NullConfig
             ELSE [threw |-> FALSE, isNull |-> FALSE, batchSize |-> config.batchSize]

\* (apifyConfig?.batchSize as number) || 10
batchSizeOf(apifyConfig) ==
    IF apifyConfig.isNull THEN 10
    ELSE IF apifyConfig.batchSize # 0 THEN apifyConfig.batchSize
    ELSE 10

\* list.slice(start, end) for integers start and end
slice(list, start, end) ==
    LET from == IF start < 0 THEN (IF Len(list) + start < 0 THEN 0 ELSE Len(list) + start)
                ELSE Min(start, Len(list))
        to == IF end < 0 THEN (IF Len(list) + end < 0 THEN 0 ELSE Len(list) + end)
              ELSE Min(end, Len(list))
    IN  SubSeq(list, from + 1, to)

\* the where clause of findFirst, lines 548-558
matches(row, job) ==
    \/ row.sourceUrl = job.sourceUrl
    \/ /\ (job.sourceUrl = "#" \/ job.sourceUrl = "")
       /\ sameTriple(row, job)

\* candidates of a findFirst without its where clause
candidatesUnfiltered(st, job) == 1..Len(st)

\* the rows findFirst may return: it states no order
candidates(st, job) == {id \in 1..Len(st) : matches(st[id], job)}

\* an update that also takes the time of the update as postedAt
updateRowResettingPostedAt(row, job, now) ==
    [row EXCEPT !.title = job.title,
                !.company = job.company,
                !.location = job.location,
                !.jobType = job.jobType,
                !.shortDescription = job.shortDescription,
                !.fullDescription = job.fullDescription,
                !.sourceUrl = orDefault(job.sourceUrl, row.sourceUrl),
                !.postedAt = now,
                !.updatedAt = now]

\* prisma.job.update, lines 563-576
updateRow(row, job, now) ==
    [row EXCEPT !.title = job.title,
                !.company = job.company,
                !.location = job.location,
                !.jobType = job.jobType,
                !.shortDescription = job.shortDescription,
                !.fullDescription = job.fullDescription,
                !.sourceUrl = orDefault(job.sourceUrl, row.sourceUrl),
                !.updatedAt = now]

\* prisma.job.create, lines 580-591; an absent sourceUrl is stored as null
createRow(id, job, now) ==
    [id |-> id,
     title |-> job.title,
     company |-> job.company,
     location |-> job.location,
     jobType |-> job.jobType,
     shortDescription |-> job.shortDescription,
     fullDescription |-> job.fullDescription,
     sourceUrl |-> orDefault(job.sourceUrl, "null"),
     postedAt |-> now,
     createdAt |-> now,
     updatedAt |-> now]

\* `Error syncing job "${title}" at ${company}: ${error.message}`
errorMsg(job) == [title |-> job.title, company |-> job.company]

\* the slice of scrapedJobs that is the current batch
batchOf(r) == slice(r.scrapedJobs, r.i, r.i + r.batchSize)

NoKv == [storeId |-> FALSE, apiToken |-> FALSE, answer |-> "notFound", batchSize |-> 0]

IdleRun ==
    [pc |-> "idle", batchSize |-> 0, scrapedJobs |-> <<>>, i |-> 0,
     itemPc |-> <<>>, existingJob |-> <<>>, created |-> 0, updated |-> 0,
     errors |-> <<>>, total |-> 0, before |-> <<>>, after |-> <<>>,
     faults |-> 0, env |-> [apiKey |-> FALSE, robots |-> <<>>],
     reply |-> NoReply, kv |-> NoKv]

\* the functions of lib/ai.ts that call openai.chat.completions.create
AiFunctions ==
    {"generateResumeFromProfile", "scoreJobsForResume", "tailorResumeToJob",
     "generateCoverLetter", "parseResumeFromText"}

\* the function passes its request to withRetry (lines 105, 251, 320, 367);
\* generateResumeFromProfile awaits it directly (line 27)
usesWithRetry(fn) == fn # "generateResumeFromProfile"

\* the function has a catch block that returns a fallback (lines 187-211)
hasFallback(fn) == fn = "scoreJobsForResume"

\* the function reads the completion with JSON.parse; generateCoverLetter
\* returns the content as it is
parsesCompletion(fn) == fn # "generateCoverLetter"

IdleAiCall ==
    [fn |-> "", pc |-> "idle", attempt |-> 0, delay |-> 0, errors |-> <<>>,
     completion |-> "none", outcome |-> "none"]

\* waitForTaskCompletion(robotId, taskId, timeoutMs = 60000), and the 2000 ms
\* it sleeps between two polls
timeoutMs == 60000

pollInterval == 2000

IdleCall ==
    [pc |-> "idle", startTime |-> 0, tasks |-> 0, polls |-> 0, status |-> "none",
     wait |-> "none", endTime |-> 0, returned |-> <<>>]

(***************************************************************************)
(* Inputs of the scoring pipeline.                                         *)
(***************************************************************************)
StringResume == [isString |-> TRUE, hasKeywords |-> FALSE, keywords |-> <<>>, skills |-> <<>>]

ParsedResume(hasKw, kws, skills) ==
    [isString |-> FALSE, hasKeywords |-> hasKw, keywords |-> kws, skills |-> skills]

Job(id, title, company, full, short) ==
    [id |-> id, title |-> title, company |-> company,
     fullDescription |-> full, shortDescription |-> short]

\* job lists of the given contents with the ids of the table
JobLists(Contents, n) ==
    {[k \in 1..Len(c) |-> Job(JobIds[k], c[k].title, c[k].company, c[k].full, c[k].short)] :
        c \in SeqsUpTo(Contents, n)}

\* what a completion may say about a score
ScoreVals == {Num(-2), Num(0), Num(171), Num(202), NumStr(170), Str, Null, Undef}

\* job ids a completion may name: two of the table and one unknown
ResponseIds == {"j1", "j2", "jX"}

NullItem == [isNull |-> TRUE, jobId |-> "", score |-> Undef]

ListItems == [isNull : {FALSE}, jobId : ResponseIds, score : ScoreVals] \cup {NullItem}

KeyedItems == [jobId : ResponseIds, isObj : BOOLEAN, val : ScoreVals]

\* the keys of a JSON object are distinct
distinctKeys(items) ==
    \A k, l \in 1..Len(items) : k # l => items[k].jobId # items[l].jobId

Bodies ==
    {Body(kind, <<>>) : kind \in {"nonjson", "nochoices", "jsonnull"}}
    \cup {Body(kind, items) : kind \in {"scores", "array"}, items \in SeqsUpTo(ListItems, MaxEntries)}
    \cup {Body("keyed", items) : items \in {s \in SeqsUpTo(KeyedItems, MaxEntries) : distinctKeys(s)}}

\* statuses of a failed request; 0 is an error without a status
Statuses == {0, 401, 429, 500}

(***************************************************************************)
(* Actions of the scoring pipeline.                                        *)
(***************************************************************************)
\* lines 39-105: the call, up to the first request
Invoke ==
    /\ sPc = "start"
    /\ IF Len(jobs) = 0
       THEN /\ sPc' = "done"
            /\ path' = "empty"
            /\ result' = <<>>
            /\ UNCHANGED <<attempt, delay, attempts>>
       ELSE /\ sPc' = "call"
            /\ attempt' = 0
            /\ delay' = initialDelay
            /\ attempts' = 1
            /\ UNCHANGED <<path, result>>
    /\ UNCHANGED <<resume, jobs, waits, lastError, response, matchResponse,
                   syncVars, httpVars, robotVars, aiVars, ownerVars>>

\* RequestFails without the catch block: the error leaves scoreJobsForResume
RequestFailsUncaught(status) ==
    /\ sPc = "call"
    /\ lastError' = Err(status)
    /\ IF attempt = maxRetries \/ ~retryable(Err(status))
       THEN sPc' = "thrown"
       ELSE sPc' = "backoff"
    /\ UNCHANGED <<resume, jobs, attempt, delay, attempts, waits, response,
                   path, result, matchResponse,
                   syncVars, httpVars, robotVars, aiVars, ownerVars>>

\* the request rejects: withRetry rethrows into the catch block of
\* scoreJobsForResume, or sleeps
RequestFails(status) ==
    /\ sPc = "call"
    /\ lastError' = Err(status)
    /\ IF attempt = maxRetries \/ ~retryable(Err(status))
       THEN /\ sPc' = "done"
            /\ path' = "fallback"
            /\ result' = fallbackScores(resume, jobs)
       ELSE /\ sPc' = "backoff"
            /\ UNCHANGED <<path, result>>
    /\ UNCHANGED <<resume, jobs, attempt, delay, attempts, waits, response, matchResponse,
                   syncVars, httpVars, robotVars, aiVars, ownerVars>>

\* BackoffEnds with a loop that does not count its attempts
BackoffEndsUncounted ==
    /\ sPc = "backoff"
    /\ waits' = waits + 1
    /\ delay' = Min(delay * 2, maxDelay)
    /\ attempts' = attempts + 1
    /\ sPc' = "call"
    /\ UNCHANGED <<resume, jobs, attempt, lastError, response, path, result, matchResponse,
                   syncVars, httpVars, robotVars, aiVars, ownerVars>>

\* the sleep of withRetry ends and the next attempt is issued
BackoffEnds ==
    /\ sPc = "backoff"
    /\ waits' = waits + 1
    /\ delay' = Min(delay * 2, maxDelay)
    /\ attempt' = attempt + 1
    /\ attempts' = attempts + 1
    /\ sPc' = "call"
    /\ UNCHANGED <<resume, jobs, lastError, response, path, result, matchResponse,
                   syncVars, httpVars, robotVars, aiVars, ownerVars>>

\* the request resolves with a completion: lines 124-186, or the catch block
RequestResolves(body) ==
    /\ sPc = "call"
    /\ response' = body
    /\ sPc' = "done"
    /\ IF parseThrows(body)
       THEN /\ path' = "fallback"
            /\ result' = fallbackScores(resume, jobs)
       ELSE /\ path' = "llm"
            /\ result' = llmScores(body, jobs)
    /\ UNCHANGED <<resume, jobs, attempt, delay, attempts, waits, lastError, matchResponse,
                   syncVars, httpVars, robotVars, aiVars, ownerVars>>

\* matchJobsHandler has the scores of its non-empty pool and answers
\* (lines 83-116 of the match route)
MatchResponds ==
    /\ sPc = "done"
    /\ Len(jobs) > 0
    /\ ~matchResponse.sent
    /\ \E scoredJobs \in sort(mergeScores(jobs, result)) :
          matchResponse' = [sent |-> TRUE, jobs |-> scoredJobs,
                            totalJobs |-> Len(scoredJobs)]
    /\ UNCHANGED <<resume, jobs, sPc, attempt, delay, attempts, waits, lastError,
                   response, path, result, syncVars, httpVars, robotVars, aiVars, ownerVars>>

(***************************************************************************)
(* Actions of the reconciler, for request p.                               *)
(***************************************************************************)
\* syncJobsToDatabase is called and getScraperConfig settles (lines 510-523;
\* 611-616 when it throws); cfg is what the key-value store holds
StartSync(p, cfg) ==
    /\ run[p].pc = "idle"
    /\ nRuns < MaxRuns
    /\ nRuns' = nRuns + 1
    /\ clock' = clock + 1
    /\ LET apifyConfig == getScraperConfig(cfg)
       IN  run' = [run EXCEPT ![p] =
                IF apifyConfig.threw
                THEN [IdleRun EXCEPT !.pc = "done", !.kv = cfg, !.total = 0,
                                     !.errors = <<[title |-> "Failed to sync jobs", company |-> ""]>>,
                                     !.before = store, !.after = store]
                ELSE [IdleRun EXCEPT !.pc = "fetch", !.kv = cfg,
                                     !.batchSize = batchSizeOf(apifyConfig),
                                     !.before = store]]
    /\ UNCHANGED <<store, last, upstream, changes, scoreVars, httpVars, robotVars, aiVars, ownerVars>>

\* the first batch.map(...) call runs every callback up to its findFirst
startBatch(r) ==
    [r EXCEPT !.pc = "batch",
              !.itemPc = [k \in 1..Len(batchOf(r)) |-> "lookup"],
              !.existingJob = [k \in 1..Len(batchOf(r)) |-> 0]]

\* fetchLatestJobs resolves (lines 524-539)
Fetch(p) ==
    /\ run[p].pc = "fetch"
    /\ LET scraped == fetchLatestJobs(upstream)
           r == [run[p] EXCEPT !.scrapedJobs = scraped, !.env = upstream, !.i = 0]
       IN  run' = [run EXCEPT ![p] =
                IF Len(scraped) = 0
                THEN [r EXCEPT !.pc = "done", !.total = 0,
                               !.errors = <<[title |-> "No jobs fetched from Browser AI", company |-> ""]>>,
                               !.after = store]
                ELSE startBatch(r)]
    /\ UNCHANGED <<store, clock, nRuns, last, upstream, changes, scoreVars, httpVars, robotVars, aiVars, ownerVars>>

\* findFirst of item k of the batch resolves (lines 547-561)
Lookup(p, k) ==
    /\ run[p].pc = "batch"
    /\ k \in 1..Len(run[p].itemPc)
    /\ run[p].itemPc[k] = "lookup"
    /\ LET job == batchOf(run[p])[k]
           found == candidates(store, job)
       IN  \E id \in (IF found = {} THEN {0} ELSE found) :
               run' = [run EXCEPT ![p].itemPc[k] = "write",
                                  ![p].existingJob[k] = id]
    /\ UNCHANGED <<store, clock, nRuns, last, upstream, changes, scoreVars, httpVars, robotVars, aiVars, ownerVars>>

\* Write with an update that deletes the row and inserts its replacement
WriteByReplacing(p, k) ==
    /\ run[p].pc = "batch"
    /\ k \in 1..Len(run[p].itemPc)
    /\ run[p].itemPc[k] = "write"
    /\ LET job == batchOf(run[p])[k]
           id == run[p].existingJob[k]
       IN  IF id # 0 /\ id <= Len(store)
           THEN /\ store' = SubSeq(store, 1, id - 1) \o SubSeq(store, id + 1, Len(store))
                               \o <<updateRow([store[id] EXCEPT !.id = Len(store) + 1], job, clock)>>
                /\ run' = [run EXCEPT ![p].itemPc[k] = "done",
                                      ![p].updated = @ + 1]
           ELSE /\ store' = Append(store, createRow(Len(store) + 1, job, clock))
                /\ run' = [run EXCEPT ![p].itemPc[k] = "done",
                                      ![p].created = @ + 1]
    /\ UNCHANGED <<clock, nRuns, last, upstream, changes, scoreVars, httpVars, robotVars, aiVars, ownerVars>>

\* update or create of item k resolves (lines 561-593)
Write(p, k) ==
    /\ run[p].pc = "batch"
    /\ k \in 1..Len(run[p].itemPc)
    /\ run[p].itemPc[k] = "write"
    /\ LET job == batchOf(run[p])[k]
           id == run[p].existingJob[k]
       IN  IF id # 0
           THEN /\ store' = [store EXCEPT ![id] = updateRow(store[id], job, clock)]
                /\ run' = [run EXCEPT ![p].itemPc[k] = "done",
                                      ![p].updated = @ + 1]
           ELSE /\ store' = Append(store, createRow(Len(store) + 1, job, clock))
                /\ run' = [run EXCEPT ![p].itemPc[k] = "done",
                                      ![p].created = @ + 1]
    /\ UNCHANGED <<clock, nRuns, last, upstream, changes, scoreVars, httpVars, robotVars, aiVars, ownerVars>>

\* ItemFails without the per-item catch: the error reaches the outer catch,
\* which returns at once with total 0
ItemFailsAborts(p, k) ==
    /\ run[p].pc = "batch"
    /\ k \in 1..Len(run[p].itemPc)
    /\ run[p].itemPc[k] \in {"lookup", "write"}
    /\ run[p].faults < MaxFaults
    /\ run' = [run EXCEPT ![p].pc = "done",
                          ![p].total = 0,
                          ![p].itemPc = <<>>,
                          ![p].existingJob = <<>>,
                          ![p].errors = Append(@, errorMsg(batchOf(run[p])[k])),
                          ![p].faults = @ + 1,
                          ![p].after = store]
    /\ UNCHANGED <<store, clock, nRuns, last, upstream, changes, scoreVars, httpVars, robotVars, aiVars, ownerVars>>

\* ItemFails with a catch that does not push the error message
ItemFailsUncounted(p, k) ==
    /\ run[p].pc = "batch"
    /\ k \in 1..Len(run[p].itemPc)
    /\ run[p].itemPc[k] \in {"lookup", "write"}
    /\ run[p].faults < MaxFaults
    /\ run' = [run EXCEPT ![p].itemPc[k] = "done",
                          ![p].faults = @ + 1]
    /\ UNCHANGED <<store, clock, nRuns, last, upstream, changes, scoreVars, httpVars, robotVars, aiVars, ownerVars>>

\* the outstanding persistence operation of item k throws (lines 594-598)
ItemFails(p, k) ==
    /\ run[p].pc = "batch"
    /\ k \in 1..Len(run[p].itemPc)
    /\ run[p].itemPc[k] \in {"lookup", "write"}
    /\ run[p].faults < MaxFaults
    /\ run' = [run EXCEPT ![p].itemPc[k] = "done",
                          ![p].errors = Append(@, errorMsg(batchOf(run[p])[k])),
                          ![p].faults = @ + 1]
    /\ UNCHANGED <<store, clock, nRuns, last, upstream, changes, scoreVars, httpVars, robotVars, aiVars, ownerVars>>

\* BatchDone of a loop that does not await Promise.all
BatchDoneUnawaited(p) ==
    /\ run[p].pc = "batch"
    /\ LET r == [run[p] EXCEPT !.i = @ + run[p].batchSize]
       IN  run' = [run EXCEPT ![p] =
                IF r.i < Len(r.scrapedJobs)
                THEN startBatch(r)
                ELSE [r EXCEPT !.pc = "done", !.total = Len(r.scrapedJobs),
                               !.itemPc = <<>>, !.existingJob = <<>>,
                               !.after = store]]
    /\ UNCHANGED <<store, clock, nRuns, last, upstream, changes, scoreVars, httpVars, robotVars, aiVars, ownerVars>>

\* Promise.all of the batch resolves: the next batch, or the return of
\* lines 603-610
BatchDone(p) ==
    /\ run[p].pc = "batch"
    /\ \A k \in 1..Len(run[p].itemPc) : run[p].itemPc[k] = "done"
    /\ LET r == [run[p] EXCEPT !.i = @ + run[p].batchSize]
       IN  run' = [run EXCEPT ![p] =
                IF r.i < Len(r.scrapedJobs)
                THEN startBatch(r)
                ELSE [r EXCEPT !.pc = "done", !.total = Len(r.scrapedJobs),
                               !.itemPc = <<>>, !.existingJob = <<>>,
                               !.after = store]]
    /\ UNCHANGED <<store, clock, nRuns, last, upstream, changes, scoreVars, httpVars, robotVars, aiVars, ownerVars>>

\* the route has the SyncResult and replies; the request ends
Return(p) ==
    /\ run[p].pc = "done"
    /\ last' = [run[p] EXCEPT !.reply = syncRoute(FALSE, run[p])]
    /\ run' = [run EXCEPT ![p] = IdleRun]
    /\ UNCHANGED <<store, clock, nRuns, upstream, changes, scoreVars, httpVars, robotVars, aiVars, ownerVars>>

\* the job boards or the robots change what the next fetch sees; only a
\* fetch reads upstream, so a change at any other moment is this one, taken
\* when that fetch is outstanding
UpstreamChanges(env) ==
    /\ changes < MaxChanges
    /\ \E p \in Procs : run[p].pc = "fetch"
    /\ env # upstream
    /\ upstream' = env
    /\ changes' = changes + 1
    /\ UNCHANGED <<store, clock, run, nRuns, last, scoreVars, httpVars, robotVars, aiVars, ownerVars>>

(***************************************************************************)
(* Actions of the HTTP routes.                                             *)
(***************************************************************************)
MatchRequests ==
    [method : {"POST", "GET"}, authenticated : BOOLEAN, hasResumeId : BOOLEAN,
     resumeFound : BOOLEAN, contentParses : BOOLEAN, jobsEmpty : BOOLEAN,
     dbThrows : BOOLEAN]

\* the request of a route whose handler the model does not look into
AnyRequest ==
    [method |-> "POST", authenticated |-> FALSE, hasResumeId |-> FALSE,
     resumeFound |-> FALSE, contentParses |-> FALSE, jobsEmpty |-> FALSE,
     dbThrows |-> FALSE]

\* what such a handler answers
HandlerStatuses == {200}

NoResponse ==
    [client |-> "", route |-> "", req |-> AnyRequest, status |-> 0, handled |-> FALSE]

\* withRateLimit(req, handler, limiter) for client c: the entry that check
\* leaves, whether the handler is invoked, and the status of the response,
\* status being what the handler answers
withRateLimit(c, status) ==
    LET res == check(rateLimiters[limiter], rlStore[c], dateNow)
    IN  [entry |-> res.entry,
         handled |-> res.allowed,
         status |-> IF res.allowed THEN status ELSE 429]

\* POST or GET /api/jobs/match, wrapped with rateLimiters.ai
MatchRequest(c, req) ==
    /\ limiter = "ai"
    /\ LET out == withRateLimit(c, matchRoute(req))
       IN  /\ rlStore' = [rlStore EXCEPT ![c] = out.entry]
           /\ resp' = [client |-> c, route |-> "match", req |-> req,
                       status |-> out.status, handled |-> out.handled]
           /\ recent' = [recent EXCEPT ![c] = IF out.handled THEN Append(@, dateNow) ELSE @]
    /\ UNCHANGED <<limiter, dateNow, ticks, scoreVars, syncVars, robotVars, aiVars, ownerVars>>

\* a request to another route wrapped with the limiter
RouteRequest(c, status) ==
    /\ LET out == withRateLimit(c, status)
       IN  /\ rlStore' = [rlStore EXCEPT ![c] = out.entry]
           /\ resp' = [client |-> c, route |-> "other", req |-> AnyRequest,
                       status |-> out.status, handled |-> out.handled]
           /\ recent' = [recent EXCEPT ![c] = IF out.handled THEN Append(@, dateNow) ELSE @]
    /\ UNCHANGED <<limiter, dateNow, ticks, scoreVars, syncVars, robotVars, aiVars, ownerVars>>

\* time passes
Tick(d) ==
    /\ ticks < MaxTicks
    /\ ticks' = ticks + 1
    /\ dateNow' = dateNow + d
    /\ LET late(t) == t >= dateNow + d - rateLimiters[limiter].windowMs
       IN  recent' = [c \in Clients |-> SelectSeq(recent[c], late)]
    /\ UNCHANGED <<limiter, rlStore, resp, scoreVars, syncVars, robotVars, aiVars, ownerVars>>

\* the setInterval of the constructor fires
Cleanup ==
    /\ \E c \in Clients : rlStore[c].present /\ rlStore[c].resetAt < dateNow
    /\ rlStore' = cleanup(rlStore, dateNow)
    /\ UNCHANGED <<limiter, dateNow, ticks, recent, resp, scoreVars, syncVars, robotVars, aiVars, ownerVars>>

(***************************************************************************)
(* Inputs of the reconciler.                                               *)
(***************************************************************************)
\* captured items: an empty string is a field the robot did not capture
RawJobs ==
    [title : {"", "A"}, company : {"X"}, location : {"L"}, jobType : {""},
     description : {"d1"}, url : {"", "u1", "u2"}]
    \cup {[title |-> "A", company |-> "X", location |-> "L", jobType |-> "",
            description |-> "d2", url |-> "u1"]}

\* the collaborator: no API key, no robot configured, one robot that fails,
\* one robot that captures a list
Envs ==
    {[apiKey |-> FALSE, robots |-> <<>>], [apiKey |-> TRUE, robots |-> <<>>],
     [apiKey |-> TRUE, robots |-> <<[ok |-> FALSE, rawJobs |-> <<>>]>>]}
    \cup {[apiKey |-> TRUE, robots |-> <<[ok |-> TRUE, rawJobs |-> l]>>] :
            l \in SeqsUpTo(RawJobs, MaxRawJobs)}

\* the job-sync configuration: APIFY_KV_STORE_ID not set, or a stored
\* configuration with batchSize 1
Configs ==
    {NoKv, [storeId |-> TRUE, apiToken |-> TRUE, answer |-> "json", batchSize |-> 1]}

(***************************************************************************)
(* Actions of a call of a function of lib/ai.ts.                           *)
(***************************************************************************)
\* the function is called and issues its first request
AiInvoke(fn) ==
    /\ aiCall.pc = "idle"
    /\ aiCall' = [aiCall EXCEPT !.fn = fn, !.pc = "call", !.attempt = 0,
                                !.delay = initialDelay]
    /\ UNCHANGED <<scoreVars, syncVars, httpVars, robotVars, ownerVars>>

\* the request rejects: withRetry sleeps, or the error leaves the function
\* (into the catch block of scoreJobsForResume)
AiRequestFails(status) ==
    /\ aiCall.pc = "call"
    /\ aiCall' =
          IF /\ usesWithRetry(aiCall.fn)
             /\ aiCall.attempt # maxRetries
             /\ retryable(Err(status))
          THEN [aiCall EXCEPT !.pc = "backoff", !.errors = Append(@, status)]
          ELSE [aiCall EXCEPT !.pc = "done", !.errors = Append(@, status),
                              !.outcome = IF hasFallback(aiCall.fn) THEN "fallback"
                                          ELSE "error"]
    /\ UNCHANGED <<scoreVars, syncVars, httpVars, robotVars, ownerVars>>

\* the sleep of withRetry ends and the next request is issued
AiBackoffEnds ==
    /\ aiCall.pc = "backoff"
    /\ aiCall' = [aiCall EXCEPT !.pc = "call", !.attempt = @ + 1,
                                !.delay = Min(@ * 2, maxDelay)]
    /\ UNCHANGED <<scoreVars, syncVars, httpVars, robotVars, ownerVars>>

\* the request resolves with a completion and the function reads it
AiRequestResolves(readable) ==
    /\ aiCall.pc = "call"
    /\ aiCall' =
          [aiCall EXCEPT !.pc = "done",
                         !.completion = IF readable THEN "readable" ELSE "unreadable",
                         !.outcome = IF readable \/ ~parsesCompletion(aiCall.fn) THEN "result"
                                     ELSE IF hasFallback(aiCall.fn) THEN "fallback"
                                     ELSE "error"]
    /\ UNCHANGED <<scoreVars, syncVars, httpVars, robotVars, ownerVars>>

(***************************************************************************)
(* Actions of fetchJobsFromRobot and waitForTaskCompletion.                *)
(***************************************************************************)
\* RobotTask.status
TaskStatuses == {"successful", "failed", "in-progress", "monitoring"}

\* how long a request to Browse AI takes, and how long setTimeout(2000)
\* sleeps, in ms
RequestDurations == {0, 1000}

SleepDurations == {pollInterval, pollInterval + 1000}

\* what a successful task captured
CapturedLists ==
    {<<>>,
     <<[title |-> "A", company |-> "X", location |-> "L", jobType |-> "",
        description |-> "d1", url |-> "u1"]>>}

\* fetchJobsFromRobot(robotId) is called: getRobots is requested
CallRobot ==
    /\ robotCall.pc = "idle"
    /\ robotCall' = [robotCall EXCEPT !.pc = "getRobots"]
    /\ UNCHANGED <<scoreVars, syncVars, httpVars, aiVars, ownerVars>>

\* getRobots resolves (lines 24-51): the robot is not found, or
\* runRobotTask is requested
GetRobotsResolves(found) ==
    /\ robotCall.pc = "getRobots"
    /\ robotCall' = IF found
                    THEN [robotCall EXCEPT !.pc = "runTask", !.tasks = @ + 1]
                    ELSE [robotCall EXCEPT !.pc = "done", !.returned = <<>>]
    /\ UNCHANGED <<scoreVars, syncVars, httpVars, aiVars, ownerVars>>

\* runRobotTask resolves and waitForTaskCompletion starts (lines 51-54 of
\* browserAIJobs.ts, 102-105 of browseAiClient.ts): the first poll
RunTaskResolves(d) ==
    /\ robotCall.pc = "runTask"
    /\ dateNow' = dateNow + d
    /\ robotCall' = [robotCall EXCEPT !.pc = "poll", !.startTime = dateNow + d,
                                      !.polls = @ + 1]
    /\ UNCHANGED <<limiter, rlStore, ticks, recent, resp, scoreVars, syncVars, aiVars, ownerVars>>

\* the outstanding request throws (request, lines 53-77): the catch of
\* fetchJobsFromRobot returns []
ApiFails ==
    /\ robotCall.pc \in {"getRobots", "runTask", "poll"}
    /\ robotCall' = [robotCall EXCEPT !.pc = "done",
                                      !.wait = IF robotCall.pc = "poll" THEN "error" ELSE @,
                                      !.endTime = dateNow,
                                      !.returned = <<>>]
    /\ UNCHANGED <<scoreVars, syncVars, httpVars, aiVars, ownerVars>>

\* PollResolves that takes a failed task for one in progress
PollResolvesIgnoringFailed(status, d, captured) ==
    /\ robotCall.pc = "poll"
    /\ dateNow' = dateNow + d
    /\ robotCall' =
          IF status = "successful"
          THEN [robotCall EXCEPT !.pc = "done", !.status = status, !.wait = "returned",
                                 !.endTime = dateNow + d,
                                 !.returned = fetchJobsFromRobot([ok |-> TRUE, rawJobs |-> captured])]
          ELSE [robotCall EXCEPT !.pc = "sleep", !.status = status]
    /\ UNCHANGED <<limiter, rlStore, ticks, recent, resp, scoreVars, syncVars, aiVars, ownerVars>>

\* getRobotTask resolves (lines 105-116): the task is returned and
\* fetchJobsFromRobot maps what it captured, or "Browse AI task failed" is
\* thrown into the catch of fetchJobsFromRobot, or the loop sleeps
PollResolves(status, d, captured) ==
    /\ robotCall.pc = "poll"
    /\ dateNow' = dateNow + d
    /\ robotCall' =
          IF status = "successful"
          THEN [robotCall EXCEPT !.pc = "done", !.status = status, !.wait = "returned",
                                 !.endTime = dateNow + d,
                                 !.returned = fetchJobsFromRobot([ok |-> TRUE, rawJobs |-> captured])]
          ELSE IF status = "failed"
          THEN [robotCall EXCEPT !.pc = "done", !.status = status, !.wait = "failed",
                                 !.endTime = dateNow + d, !.returned = <<>>]
          ELSE [robotCall EXCEPT !.pc = "sleep", !.status = status]
    /\ UNCHANGED <<limiter, rlStore, ticks, recent, resp, scoreVars, syncVars, aiVars, ownerVars>>

\* the sleep ends and the loop condition is read (lines 104, 116-119): the
\* next poll, or "Browse AI task timed out" is thrown into the catch of
\* fetchJobsFromRobot
SleepEnds(d) ==
    /\ robotCall.pc = "sleep"
    /\ dateNow' = dateNow + d
    /\ robotCall' =
          IF (dateNow + d) - robotCall.startTime < timeoutMs
          THEN [robotCall EXCEPT !.pc = "poll", !.polls = @ + 1]
          ELSE [robotCall EXCEPT !.pc = "done", !.wait = "timeout",
                                 !.endTime = dateNow + d, !.returned = <<>>]
    /\ UNCHANGED <<limiter, rlStore, ticks, recent, resp, scoreVars, syncVars, aiVars, ownerVars>>

(***************************************************************************)
(* Specifications.                                                         *)
(***************************************************************************)
NoError == [hasStatus |-> FALSE, status |-> -1]

(***************************************************************************)
(* The match endpoints and the resume they score against:                  *)
(* app/api/jobs/match/route.ts (POST and GET, all jobs) and                *)
(* GET /api/jobs/match/[jobId] (one job).                                  *)
(***************************************************************************)
Users == {"u1", "u2"}

ResumeIds == {"r1", "r2"}

\* resume.content: two contents that parse, one that is not JSON
Contents == {"cA", "cB", "bad"}

ResumeTables == [ResumeIds -> [userId : Users, content : Contents]]

NoResume == [found |-> FALSE, id |-> "", userId |-> "", content |-> ""]

\* a findFirst whose where clause has the id only
findFirstResumeById(table, resumeId, userId) ==
    IF resumeId \in DOMAIN table
    THEN [found |-> TRUE, id |-> resumeId, userId |-> table[resumeId].userId,
          content |-> table[resumeId].content]
    ELSE NoResume

\* prisma.resume.findFirst({ where: { id: resumeId, userId: userId } })
findFirstResume(table, resumeId, userId) ==
    IF resumeId \in DOMAIN table /\ table[resumeId].userId = userId
    THEN [found |-> TRUE, id |-> resumeId, userId |-> table[resumeId].userId,
          content |-> table[resumeId].content]
    ELSE NoResume

\* a request: the endpoint and method, the user of the session ("" without a
\* session), the resumeId it names ("" when it names none, "r9" an id no
\* resume has), how many jobs the database has for it, whether a database
\* call throws
OwnerRequests ==
    {req \in [endpoint : {"batch", "single"}, method : {"POST", "GET"},
              session : Users \cup {""}, resumeId : ResumeIds \cup {"", "r9"},
              jobs : {0, 1}, dbThrows : BOOLEAN] :
        req.endpoint = "single" => req.method = "GET"}

NoOwnerRequest ==
    [endpoint |-> "", method |-> "", session |-> "", resumeId |-> "", jobs |-> 0,
     dbThrows |-> FALSE]

\* the handler answers with status before any scoring
Answer(status) == [status |-> status, scoring |-> FALSE, resume |-> NoResume]

\* from the findFirst to the call of scoreJobsForResume: the answer, or the
\* resume whose parsed content is scored
upToScoring(req, table) ==
    LET found == findFirstResume(table, req.resumeId, req.session)
    IN  IF req.dbThrows THEN Answer(500)
        ELSE IF ~found.found THEN Answer(404)
        ELSE IF found.content = "bad" THEN Answer(400)
        ELSE IF req.jobs = 0 THEN Answer(404)
        ELSE [status |-> 0, scoring |-> TRUE, resume |-> found]

\* POST and GET of app/api/jobs/match/route.ts
batchEndpoint(req, table) ==
    IF req.method = "POST"
    THEN IF req.session = "" THEN Answer(401)
         ELSE IF req.resumeId = "" THEN Answer(400)
         ELSE upToScoring(req, table)
    ELSE IF req.resumeId = "" THEN Answer(400)
         ELSE IF req.session = "" THEN Answer(401)
         ELSE upToScoring(req, table)

\* GET /api/jobs/match/[jobId]
singleEndpoint(req, table) ==
    IF req.session = "" THEN Answer(401)
    ELSE IF req.resumeId = "" THEN Answer(400)
    ELSE upToScoring(req, table)

endpoint(req, table) ==
    IF req.endpoint = "batch" THEN batchEndpoint(req, table)
    ELSE singleEndpoint(req, table)

\* the scores scoreJobsForResume may return for the one job
ScoreLists == {<<>>, <<10>>, <<90>>}

NoMatchBody == [resumeId |-> "", matchScore |-> -1]

IdleMatchCall ==
    [pc |-> "idle", req |-> NoOwnerRequest, resume |-> NoResume, prompts |-> <<>>,
     status |-> 0, body |-> NoMatchBody]

OwnerIdle ==
    /\ resumes = [id \in ResumeIds |-> [userId |-> "u1", content |-> "cA"]]
    /\ matchCall = IdleMatchCall

\* a request arrives; withRateLimit refuses it with 429 or invokes the
\* handler, which answers or calls scoreJobsForResume with the parsed
\* content of the resume it found
MatchArrives(req, allowed) ==
    /\ matchCall.pc = "idle"
    /\ LET out == endpoint(req, resumes)
       IN  matchCall' =
               IF ~allowed
               THEN [IdleMatchCall EXCEPT !.pc = "replied", !.req = req, !.status = 429]
               ELSE IF out.scoring
               THEN [IdleMatchCall EXCEPT !.pc = "scoring", !.req = req,
                                          !.resume = out.resume,
                                          !.prompts = <<out.resume.content>>]
               ELSE [IdleMatchCall EXCEPT !.pc = "replied", !.req = req,
                                          !.status = out.status]
    /\ UNCHANGED <<resumes, scoreVars, syncVars, httpVars, robotVars, aiVars>>

\* scoreJobsForResume returns: the batch endpoint answers 200 with the
\* resume's id and the job's score, 50 for a job without a score; the
\* single-job endpoint answers 500 for an empty list and 200 with the score
\* otherwise
MatchScored(scores) ==
    /\ matchCall.pc = "scoring"
    /\ matchCall' =
          IF matchCall.req.endpoint = "batch"
          THEN [matchCall EXCEPT !.pc = "replied", !.status = 200,
                    !.body = [resumeId |-> matchCall.resume.id,
                              matchScore |-> IF scores = <<>> THEN 50 ELSE scores[1]]]
          ELSE IF scores = <<>>
          THEN [matchCall EXCEPT !.pc = "replied", !.status = 500]
          ELSE [matchCall EXCEPT !.pc = "replied", !.status = 200,
                    !.body = [resumeId |-> "", matchScore |-> scores[1]]]
    /\ UNCHANGED <<resumes, scoreVars, syncVars, httpVars, robotVars, aiVars>>

\* the response is sent; the request is over
MatchEnds ==
    /\ matchCall.pc = "replied"
    /\ matchCall' = IdleMatchCall
    /\ UNCHANGED <<resumes, scoreVars, syncVars, httpVars, robotVars, aiVars>>

ScoreIdle ==
    /\ sPc = "start"
    /\ attempt = 0
    /\ delay = 0
    /\ attempts = 0
    /\ waits = 0
    /\ lastError = NoError
    /\ response = NoBody
    /\ path = "none"
    /\ result = <<>>
    /\ matchResponse = NoMatchResponse

RobotIdle == robotCall = IdleCall

AiIdle == aiCall = IdleAiCall

HttpIdle ==
    /\ limiter = "api"
    /\ rlStore = [c \in Clients |-> NoEntry]
    /\ dateNow = 0
    /\ ticks = 0
    /\ recent = [c \in Clients |-> <<>>]
    /\ resp = NoResponse

SyncIdle ==
    /\ store = <<>>
    /\ clock = 0
    /\ run = [p \in Procs |-> IdleRun]
    /\ nRuns = 0
    /\ last = IdleRun
    /\ upstream = [apiKey |-> FALSE, robots |-> <<>>]
    /\ changes = 0

\* sequential sync requests on an initially empty table
Init ==
    /\ store = <<>>
    /\ clock = 0
    /\ run = [p \in Procs |-> IdleRun]
    /\ nRuns = 0
    /\ last = IdleRun
    /\ upstream \in Envs
    /\ changes = 0
    /\ ScoreIdle
    /\ HttpIdle
    /\ RobotIdle
    /\ AiIdle
    /\ OwnerIdle
    /\ resume = StringResume
    /\ jobs = <<>>

SyncStep(p) ==
    \/ \E cfg \in Configs : StartSync(p, cfg)
    \/ Fetch(p)
    \/ \E k \in 1..Len(run[p].itemPc) : Lookup(p, k)
    \/ \E k \in 1..Len(run[p].itemPc) : Write(p, k)
    \/ BatchDone(p)
    \/ Return(p)

Next ==
    \/ SyncStep(1)
    \/ /\ changes < MaxChanges
       /\ \E p \in Procs : run[p].pc = "fetch"
       /\ \E env \in Envs : UpstreamChanges(env)

Spec == Init /\ [][Next]_vars

\* sequential sync requests whose persistence operations may throw, the
\* upstream staying as it is
NextFaults ==
    \/ SyncStep(1)
    \/ \E k \in 1..Len(run[1].itemPc) : ItemFails(1, k)

SpecFaults == Init /\ [][NextFaults]_vars

\* two sync requests that may overlap (POST and GET /api/jobs/sync take no
\* lock), on what one robot captures of one posting
ConcurrentRawJobs == {raw \in RawJobs : raw.title = "A"}

ConcurrentEnvs ==
    {[apiKey |-> TRUE, robots |-> <<[ok |-> TRUE, rawJobs |-> l]>>] :
        l \in SeqsUpTo(ConcurrentRawJobs, MaxRawJobs) \ {<<>>}}

InitConcurrent ==
    /\ store = <<>>
    /\ clock = 0
    /\ run = [p \in Procs |-> IdleRun]
    /\ nRuns = 0
    /\ last = IdleRun
    /\ upstream \in ConcurrentEnvs
    /\ changes = 0
    /\ ScoreIdle
    /\ HttpIdle
    /\ RobotIdle
    /\ AiIdle
    /\ OwnerIdle
    /\ resume = StringResume
    /\ jobs = <<>>

ConcurrentStep(p) ==
    \/ nRuns < MaxConcurrentRuns /\ \E cfg \in Configs : StartSync(p, cfg)
    \/ Fetch(p)
    \/ \E k \in 1..Len(run[p].itemPc) : Lookup(p, k)
    \/ \E k \in 1..Len(run[p].itemPc) : Write(p, k)
    \/ BatchDone(p)
    \/ Return(p)

NextConcurrent ==
    \/ \E p \in Procs : ConcurrentStep(p)
    \/ /\ changes < MaxChanges
       /\ \E p \in Procs : run[p].pc = "fetch"
       /\ \E env \in ConcurrentEnvs : UpstreamChanges(env)

SpecConcurrent == InitConcurrent /\ [][NextConcurrent]_vars

\* sync requests with two robots configured, each of which fails or
\* captures a list
SeveralRawJobs == {raw \in RawJobs : raw.url # "" /\ raw.description = "d1"}

SeveralRobots ==
    {[ok |-> FALSE, rawJobs |-> <<>>]}
    \cup {[ok |-> TRUE, rawJobs |-> l] : l \in SeqsUpTo(SeveralRawJobs, MaxRawJobs)}

SeveralEnvs == {[apiKey |-> TRUE, robots |-> <<a, b>>] : a, b \in SeveralRobots}

InitSeveral ==
    /\ store = <<>>
    /\ clock = 0
    /\ run = [p \in Procs |-> IdleRun]
    /\ nRuns = 0
    /\ last = IdleRun
    /\ upstream \in SeveralEnvs
    /\ changes = 0
    /\ ScoreIdle
    /\ HttpIdle
    /\ RobotIdle
    /\ AiIdle
    /\ OwnerIdle
    /\ resume = StringResume
    /\ jobs = <<>>

NextSeveral ==
    \/ nRuns < MaxSeveralRuns /\ \E cfg \in Configs : StartSync(1, cfg)
    \/ Fetch(1)
    \/ \E k \in 1..Len(run[1].itemPc) : Lookup(1, k)
    \/ \E k \in 1..Len(run[1].itemPc) : Write(1, k)
    \/ BatchDone(1)
    \/ Return(1)

SpecSeveral == InitSeveral /\ [][NextSeveral]_vars

\* a sync request under any state of the key-value store and any integer
\* batchSize in the stored configuration; every awaited operation settles
BatchSizes == {-1, 0, 1, 2}

KvStores ==
    [storeId : BOOLEAN, apiToken : BOOLEAN, answer : KvAnswers, batchSize : BatchSizes]

ConfiguredEnvs ==
    {[apiKey |-> TRUE, robots |-> <<[ok |-> TRUE, rawJobs |-> l]>>] :
        l \in SeqsUpTo(SeveralRawJobs, MaxRawJobs) \ {<<>>}}

InitConfigured ==
    /\ store = <<>>
    /\ clock = 0
    /\ run = [p \in Procs |-> IdleRun]
    /\ nRuns = 0
    /\ last = IdleRun
    /\ upstream \in ConfiguredEnvs
    /\ changes = 0
    /\ ScoreIdle
    /\ HttpIdle
    /\ RobotIdle
    /\ AiIdle
    /\ OwnerIdle
    /\ resume = StringResume
    /\ jobs = <<>>

NextConfigured ==
    \/ nRuns < MaxConfiguredRuns /\ \E cfg \in KvStores : StartSync(1, cfg)
    \/ Fetch(1)
    \/ \E k \in 1..Len(run[1].itemPc) : Lookup(1, k)
    \/ \E k \in 1..Len(run[1].itemPc) : Write(1, k)
    \/ run[1].i > -MaxEmptyBatches /\ BatchDone(1)
    \/ Return(1)

SpecConfigured == InitConfigured /\ [][NextConfigured]_vars /\ WF_vars(NextConfigured)

\* one call of scoreJobsForResume, any behaviour of the LLM
ScoreResumes == {StringResume, ParsedResume(TRUE, <<<<"p">>, <<"r">>>>, <<>>)}

ScoreContents == {[title |-> <<"p">>, company |-> <<"P">>, full |-> <<>>, short |-> <<>>]}

InitScore ==
    /\ SyncIdle
    /\ ScoreIdle
    /\ HttpIdle
    /\ RobotIdle
    /\ AiIdle
    /\ OwnerIdle
    /\ resume \in ScoreResumes
    /\ jobs \in JobLists(ScoreContents, MaxScoredJobs)

NextScore ==
    \/ Invoke
    \/ \E status \in Statuses : RequestFails(status)
    \/ BackoffEnds
    \/ sPc = "call" /\ \E body \in Bodies : RequestResolves(body)
    \/ MatchResponds

SpecScore == InitScore /\ [][NextScore]_vars

\* one call of scoreJobsForResume that ends in the catch block, any resume
\* keywords and job texts
Keywords ==
    {<<>>, <<" ">>, <<"p">>, <<"P">>, <<"r">>, <<"p", "r">>, <<"p", " ", "r">>}

FallbackResumes ==
    {StringResume}
    \cup {ParsedResume(TRUE, kws, <<<<"r">>>>) : kws \in SeqsUpTo(Keywords, MaxKeywords)}
    \cup {ParsedResume(FALSE, <<>>, sk) : sk \in SeqsUpTo(Keywords, 1)}

FallbackContents ==
    [title : {<<"p">>, <<"r">>}, company : {<<"r">>},
     full : {<<>>, <<"P", "r">>}, short : {<<"r">>}]

\* completions that the code cannot read
FailBodies ==
    {Body(kind, <<>>) : kind \in {"nonjson", "nochoices", "jsonnull"}}
    \cup {Body("scores", <<NullItem>>)}

InitFallback ==
    /\ SyncIdle
    /\ ScoreIdle
    /\ HttpIdle
    /\ RobotIdle
    /\ AiIdle
    /\ OwnerIdle
    /\ resume \in FallbackResumes
    /\ jobs \in JobLists(FallbackContents, MaxFallbackJobs)

NextFallback ==
    \/ Invoke
    \/ \E status \in Statuses : RequestFails(status)
    \/ BackoffEnds
    \/ \E body \in FailBodies : RequestResolves(body)

SpecFallback == InitFallback /\ [][NextFallback]_vars

\* requests of a client, and a few of another, to routes behind one
\* RateLimiter, as time passes
Deltas(lim) == {1, lim.windowMs - 1}

InitHttp ==
    /\ SyncIdle
    /\ ScoreIdle
    /\ RobotIdle
    /\ AiIdle
    /\ OwnerIdle
    /\ resume = StringResume
    /\ jobs = <<>>
    /\ limiter \in DOMAIN rateLimiters
    /\ rlStore = [c \in Clients |-> NoEntry]
    /\ dateNow = 0
    /\ ticks = 0
    /\ recent = [c \in Clients |-> <<>>]
    /\ resp = NoResponse

NextHttp ==
    \/ \E status \in HandlerStatuses : RouteRequest("c1", status)
    \/ /\ Len(recent["c2"]) < MaxOtherRequests
       /\ \E status \in HandlerStatuses : RouteRequest("c2", status)
    \/ \E d \in Deltas(rateLimiters[limiter]) : Tick(d)
    \/ Cleanup

SpecHttp == InitHttp /\ [][NextHttp]_vars

\* requests of one client to the match endpoint, as windows pass
InitMatch ==
    /\ InitHttp
    /\ limiter = "ai"

NextMatch ==
    \/ \E req \in MatchRequests : MatchRequest("c1", req)
    \/ Tick(rateLimiters[limiter].windowMs)
    \/ Cleanup

SpecMatch == InitMatch /\ [][NextMatch]_vars

\* requests to the match endpoints on a database with resumes of two users
InitOwner ==
    /\ SyncIdle
    /\ ScoreIdle
    /\ HttpIdle
    /\ RobotIdle
    /\ AiIdle
    /\ resume = StringResume
    /\ jobs = <<>>
    /\ resumes \in ResumeTables
    /\ matchCall = IdleMatchCall

NextOwner ==
    \/ \E req \in OwnerRequests : \E allowed \in BOOLEAN : MatchArrives(req, allowed)
    \/ \E scores \in ScoreLists : MatchScored(scores)
    \/ MatchEnds

SpecOwner == InitOwner /\ [][NextOwner]_vars

\* one call of a function of lib/ai.ts, any behaviour of the OpenAI API
InitAi ==
    /\ SyncIdle
    /\ ScoreIdle
    /\ HttpIdle
    /\ RobotIdle
    /\ AiIdle
    /\ OwnerIdle
    /\ resume = StringResume
    /\ jobs = <<>>

NextAi ==
    \/ \E fn \in AiFunctions : AiInvoke(fn)
    \/ \E status \in Statuses : AiRequestFails(status)
    \/ AiBackoffEnds
    \/ \E readable \in BOOLEAN : AiRequestResolves(readable)

SpecAi == InitAi /\ [][NextAi]_vars

\* one call of fetchJobsFromRobot, any behaviour of Browse AI; every
\* awaited request and timer settles
InitRobot ==
    /\ SyncIdle
    /\ ScoreIdle
    /\ HttpIdle
    /\ RobotIdle
    /\ AiIdle
    /\ OwnerIdle
    /\ resume = StringResume
    /\ jobs = <<>>

NextRobot ==
    \/ CallRobot
    \/ \E found \in BOOLEAN : GetRobotsResolves(found)
    \/ \E d \in RequestDurations : RunTaskResolves(d)
    \/ ApiFails
    \/ \E status \in TaskStatuses, d \in RequestDurations, captured \in CapturedLists :
          PollResolves(status, d, captured)
    \/ \E d \in SleepDurations : SleepEnds(d)

SpecRobot == InitRobot /\ [][NextRobot]_vars /\ WF_vars(NextRobot)

(***************************************************************************)
(* Properties of the scoring pipeline.                                     *)
(***************************************************************************)
\* two characters that differ at most in case
SameLetter(a, b) == a = b \/ {a, b} = {"p", "P"}

\* kw occurs in text, case-insensitively
OccursIn(kw, text) ==
    \E off \in 0..(Len(text) - Len(kw)) :
        \A d \in 1..Len(kw) : SameLetter(text[off + d], kw[d])

Blank(kw) == \A k \in 1..Len(kw) : kw[k] = " "

\* the keywords the fallback counts: resume.keywords, the skills of a resume
\* that has no keywords property, none for a raw text
EffectiveKeywords(r) ==
    IF r.isString THEN <<>>
    ELSE IF r.hasKeywords THEN r.keywords ELSE r.skills

\* title, company and description (fullDescription, or shortDescription when
\* that is empty), joined by single spaces
TextOf(job) ==
    job.title \o <<" ">> \o job.company \o <<" ">>
        \o (IF job.fullDescription = <<>> THEN job.shortDescription ELSE job.fullDescription)

\* round(50 + 50 m / n), halves rounded up; 50 when n = 0
RoundedScore(m, n) ==
    IF n = 0 THEN 50
    ELSE CHOOSE sc \in 0..100 :
            /\ 2 * n * sc <= 100 * n + 100 * m + n
            /\ 100 * n + 100 * m + n < 2 * n * (sc + 1)

\* m of C10 as claimed: every keyword that occurs in the text
OccurringKeywords(kws, job) ==
    Cardinality({k \in 1..Len(kws) : OccursIn(kws[k], TextOf(job))})

\* m of C10 as amended: blank keywords are never matched
OccurringNonBlankKeywords(kws, job) ==
    Cardinality({k \in 1..Len(kws) : ~Blank(kws[k]) /\ OccursIn(kws[k], TextOf(job))})

KeywordFallbackScore(r, job) ==
    RoundedScore(OccurringNonBlankKeywords(EffectiveKeywords(r), job),
                 Len(EffectiveKeywords(r)))

\* C1: a call on a non-empty job list returns one {jobId, score} per input
\* job, in input order, and every score is an integer in 0..100, whatever the
\* LLM did.
C1_ScoreCompleteness ==
    (sPc = "done" /\ Len(jobs) > 0) =>
        /\ Len(result) = Len(jobs)
        /\ \A k \in 1..Len(jobs) :
              /\ result[k].jobId = jobs[k].id
              /\ ~result[k].score.nan
              /\ result[k].score.n \in 0..100

\* the request failed for good, or the completion that arrived cannot be read
UnrecoverableError ==
    \/ sPc \notin {"start", "call", "backoff"} /\ lastError # NoError /\ response = NoBody
    \/ response \in FailBodies

\* C8: after an unrecoverable LLM error scoreJobsForResume has returned (not
\* thrown), and its result is, per input job and in order, the keyword
\* fallback score of that job.
C8_FallbackOnError ==
    UnrecoverableError =>
        /\ sPc = "done"
        /\ Len(result) = Len(jobs)
        /\ \A k \in 1..Len(jobs) :
              result[k] = [jobId |-> jobs[k].id,
                           score |-> Int_(KeywordFallbackScore(resume, jobs[k]))]

\* C8 witness: "not json" arrived after three rate-limited attempts and a job
\* is scored 75 by its keywords
C8_Witness ==
    /\ sPc = "done"
    /\ response = Body("nonjson", <<>>)
    /\ lastError = Err(429)
    /\ attempts = 4
    /\ \E k \in 1..Len(result) : result[k].score = Int_(75)

\* the items of the response that name job id
ItemsFor(body, id) == {k \in 1..Len(body.items) : body.items[k].jobId = id}

\* what an item reports as its score: the score property of a list item, the
\* value or the score property of the value for a keyed item
Reported(body, k) ==
    IF body.kind = "keyed" THEN body.items[k].val ELSE body.items[k].score

ClampRound(h) ==
    LET n == (h + 1) \div 2
    IN  IF n < 0 THEN 0 ELSE IF n > 100 THEN 100 ELSE n

\* C9: on the LLM path, a job whose id the response names once with a number
\* s is scored s rounded and clamped to 0..100 (a reported 0 stays 0), and a
\* job whose id the response does not name is scored 50.
C9_LlmScores ==
    (sPc = "done" /\ path = "llm") =>
        \A j \in 1..Len(jobs) :
            LET items == ItemsFor(response, jobs[j].id)
            IN  /\ items = {} => result[j].score = Int_(50)
                /\ \A k \in items :
                      (Cardinality(items) = 1 /\ Reported(response, k).t = "num")
                          => result[j].score = Int_(ClampRound(Reported(response, k).v))

\* C10 as claimed: the fallback score is round(50 + 50 m / n), m the number
\* of keywords that occur case-insensitively in the job text, n the number of
\* keywords.
C10_FallbackFormulaAsClaimed ==
    (sPc = "done" /\ path = "fallback") =>
        \A k \in 1..Len(jobs) :
            result[k].score =
                Int_(RoundedScore(OccurringKeywords(EffectiveKeywords(resume), jobs[k]),
                                  Len(EffectiveKeywords(resume))))

\* C10 as amended: m counts the keywords that are not blank and occur
\* case-insensitively in title, company and description joined by spaces; n
\* counts every keyword, blank ones too; no keywords gives 50.
C10_FallbackFormula ==
    (sPc = "done" /\ path = "fallback") =>
        /\ Len(result) = Len(jobs)
        /\ \A k \in 1..Len(jobs) :
              result[k].score = Int_(KeywordFallbackScore(resume, jobs[k]))

\* C10 witness: keywords ["P", " "] against a text with p: one of two
\* matches, the blank one does not, score 75
C10_Witness ==
    /\ sPc = "done"
    /\ path = "fallback"
    /\ ~resume.isString
    /\ resume.keywords = << <<"P">>, <<" ">> >>
    /\ \E k \in 1..Len(result) : result[k].score = Int_(75)

(***************************************************************************)
(* Properties of the reconciler.                                           *)
(***************************************************************************)
Placeholder(job) == job.sourceUrl = "#" \/ job.sourceUrl = ""

\* the rows of st that carry the triple of job
Carrying(st, job) == {id \in 1..Len(st) : sameTriple(st[id], job)}

\* C2: the row a lookup gives a scraped job is, for a placeholder job ("#" or
\* no sourceUrl), a row with exactly its (title, company, location), so that a
\* placeholder never lands on the row of a different triple; for a job with
\* a real URL it is a row with that URL, and there is one whenever the table
\* has such a row.
C2_IdentityKey ==
    [][\A k \in 1..Len(run[1].itemPc) :
          (/\ run[1].pc = "batch"
           /\ run[1].itemPc[k] = "lookup"
           /\ run'[1].pc = "batch"
           /\ run'[1].itemPc[k] = "write") =>
              LET job == batchOf(run[1])[k]
                  id == run'[1].existingJob[k]
              IN  /\ id # 0 =>
                        IF Placeholder(job)
                        THEN sameTriple(store[id], job)
                        ELSE store[id].sourceUrl = job.sourceUrl
                  /\ (/\ ~Placeholder(job)
                      /\ \E r \in 1..Len(store) : store[r].sourceUrl = job.sourceUrl)
                        => id # 0]_vars

\* the run that has just finished got the list the run before it got
SecondRunOnSameList ==
    /\ run[1].pc = "done"
    /\ last.pc = "done"
    /\ run[1].scrapedJobs = last.scrapedJobs
    /\ run[1].before = last.after

\* C3: a run on the list of N postings that the run before it got reports
\* created = 0 and updated = N.
C3_SecondRunUpdatesAll ==
    SecondRunOnSameList =>
        /\ run[1].created = 0
        /\ run[1].updated = Len(run[1].scrapedJobs)

\* C4: when a run gets a placeholder job whose triple exactly one row carried
\* when the run started, that row being a placeholder row, then after the run
\* still exactly that row carries the triple.
C4_PlaceholderReconciled ==
    run[1].pc = "done" =>
        \A k \in 1..Len(run[1].scrapedJobs) :
            LET job == run[1].scrapedJobs[k]
                was == Carrying(run[1].before, job)
            IN  (/\ job.sourceUrl = "#"
                 /\ Cardinality(was) = 1
                 /\ \A id \in was : run[1].before[id].sourceUrl = "#")
                    => Carrying(store, job) = was

SameContent(a, b) ==
    /\ a.title = b.title
    /\ a.company = b.company
    /\ a.location = b.location
    /\ a.jobType = b.jobType
    /\ a.shortDescription = b.shortDescription
    /\ a.fullDescription = b.fullDescription
    /\ a.sourceUrl = b.sourceUrl

\* C5: after a run on the list the run before it got, the table has as many
\* rows as after that run and every row has the title, company, location,
\* jobType, shortDescription, fullDescription and sourceUrl it had then.
C5_IdempotentUpsert ==
    SecondRunOnSameList =>
        /\ Len(store) = Len(last.after)
        /\ \A id \in 1..Len(last.after) : SameContent(store[id], last.after[id])

\* C6: a run in which persistence operations threw still returns, with
\* total = N, one error per operation that threw, and every other item
\* created or updated, each created item being a new row.
C6_ItemFailureIsolated ==
    /\ Len(run[1].errors) = run[1].faults
    /\ run[1].pc = "done" =>
          /\ run[1].total = Len(run[1].scrapedJobs)
          /\ run[1].created + run[1].updated + run[1].faults = Len(run[1].scrapedJobs)
          /\ Len(store) = Len(run[1].before) + run[1].created

\* C6 witness: batches of one, the first item's operation threw, the error
\* names it, and the item of the later batch was created
C6_Witness ==
    /\ run[1].pc = "done"
    /\ run[1].batchSize = 1
    /\ Len(run[1].scrapedJobs) = 2
    /\ run[1].faults = 1
    /\ run[1].errors = <<errorMsg(run[1].scrapedJobs[1])>>
    /\ run[1].created = 1
    /\ store[Len(store)].title = run[1].scrapedJobs[2].title

\* the collaborator was reachable and configured, and every robot failed or
\* captured nothing
CollaboratorFailedOrEmpty(env) ==
    /\ env.apiKey
    /\ Len(env.robots) > 0
    /\ \A k \in 1..Len(env.robots) : fetchJobsFromRobot(env.robots[k]) = <<>>

\* C7: a run whose fetch found the collaborator failing or without postings
\* returns total = 0, created = 0, updated = 0 and errors, and the table is
\* as it was when the run started.
C7_NoPostingsNoWrites ==
    (run[1].pc = "done" /\ CollaboratorFailedOrEmpty(run[1].env)) =>
        /\ run[1].total = 0
        /\ run[1].created = 0
        /\ run[1].updated = 0
        /\ run[1].errors # <<>>
        /\ store = run[1].before

(***************************************************************************)
(* Properties of the match response.                                       *)
(***************************************************************************)
\* the position of the job with the id in the pool
PoolIndex(id) == CHOOSE k \in 1..Len(jobs) : jobs[k].id = id

\* C21: in the jobs of a match response no job comes after a job of a
\* lower matchScore, jobs of equal matchScore are in the order of the pool,
\* every job of the pool occurs exactly once, and totalJobs is the length of
\* the list.
C21_SortedStableComplete ==
    matchResponse.sent =>
        LET out == matchResponse.jobs
        IN  /\ Len(out) = Len(jobs)
            /\ matchResponse.totalJobs = Len(out)
            /\ \A k \in 1..Len(jobs) :
                  Cardinality({l \in 1..Len(out) : out[l].id = jobs[k].id}) = 1
            /\ \A k, l \in 1..Len(out) :
                  k < l =>
                      /\ (~out[k].matchScore.nan /\ ~out[l].matchScore.nan)
                            => out[k].matchScore.n >= out[l].matchScore.n
                      /\ out[k].matchScore = out[l].matchScore
                            => PoolIndex(out[k].id) < PoolIndex(out[l].id)

(***************************************************************************)
(* Properties of waitForTaskCompletion.                                    *)
(***************************************************************************)
InProgress(status) == status \notin {"none", "successful", "failed"}

\* how a call may stand: the wait returns a task only on a poll that
\* reported successful, has thrown as soon as a poll reported failed, throws
\* the timeout only at or after the deadline with the last poll reporting
\* the task in progress; no poll is issued at or after the deadline, so
\* that there are at most timeoutMs / 2000 polls; a wait that has thrown is
\* followed by no poll and no second task, and fetchJobsFromRobot has
\* returned []
WaitOutcomes ==
    /\ robotCall.wait = "returned" <=> robotCall.status = "successful"
    /\ robotCall.wait = "failed" <=> robotCall.status = "failed"
    /\ robotCall.wait = "timeout" =>
          /\ InProgress(robotCall.status)
          /\ robotCall.endTime - robotCall.startTime >= timeoutMs
    /\ robotCall.wait # "none" => robotCall.pc = "done"
    /\ robotCall.wait \in {"failed", "timeout", "error"} => robotCall.returned = <<>>
    /\ robotCall.pc \in {"poll", "sleep"} => robotCall.wait = "none"
    /\ robotCall.polls <= timeoutMs \div pollInterval
    /\ robotCall.tasks <= 1

\* C22: every call of fetchJobsFromRobot stands as WaitOutcomes says at
\* every moment, a wait that has ended issues no further poll or task, and
\* the call returns eventually.
C22_WaitTerminates ==
    /\ []WaitOutcomes
    /\ [][robotCall.wait # "none" =>
            /\ robotCall'.polls = robotCall.polls
            /\ robotCall'.tasks = robotCall.tasks]_vars
    /\ <>(robotCall.pc = "done")

\* C22 witness: the wait timed out after 30 polls that all reported the
\* task in progress, and fetchJobsFromRobot returned [] after one task
C22_Witness ==
    /\ robotCall.pc = "done"
    /\ robotCall.wait = "timeout"
    /\ robotCall.polls = 30
    /\ robotCall.tasks = 1
    /\ robotCall.endTime - robotCall.startTime = timeoutMs
    /\ robotCall.returned = <<>>

(***************************************************************************)
(* Properties of the retry loop.                                           *)
(***************************************************************************)
\* C11 as claimed: one invocation issues at most 3 requests.
C11_AtMostThreeAttempts == attempts <= 3

\* C11 as amended: one invocation issues at most maxRetries + 1 = 4 requests
\* and sleeps at most maxRetries = 3 times; a failure of the fourth request
\* is never followed by a sleep, and the invocation that has issued four
\* requests and seen the fourth fail has returned the fallback.
C11_BoundedRetry ==
    /\ attempts <= maxRetries + 1
    /\ waits <= maxRetries
    /\ sPc = "backoff" => attempts <= maxRetries
    /\ (attempts = maxRetries + 1 /\ sPc \notin {"call", "backoff"} /\ response = NoBody)
          => (sPc = "done" /\ path = "fallback")

\* C11 witness: four requests failed with 500, three sleeps, fallback
C11_Witness ==
    /\ sPc = "done"
    /\ path = "fallback"
    /\ attempts = 4
    /\ waits = 3
    /\ lastError = Err(500)
    /\ response = NoBody

\* the error has a status and it is 429 or 5xx
RateLimitOrServerError(error) ==
    error.hasStatus /\ (error.status = 429 \/ error.status \in 500..599)

C23_RetryOnRateLimit ==
    (aiCall.errors = <<429>> /\ aiCall.completion # "unreadable") =>
        /\ aiCall.outcome \notin {"error", "fallback"}
        /\ aiCall.pc = "done" => aiCall.outcome = "result"

(***************************************************************************)
(* Properties of one reconciler run.                                       *)
(***************************************************************************)
\* the jobs of the list have sourceUrls that are not placeholders and are
\* pairwise distinct
DistinctRealUrls(list) ==
    /\ \A k \in 1..Len(list) : ~Placeholder(list[k])
    /\ \A k, l \in 1..Len(list) : k # l => list[k].sourceUrl # list[l].sourceUrl

\* C13: a run that started on an empty table and fetched n jobs with
\* pairwise distinct non-placeholder sourceUrls ends with created = n,
\* updated = 0, total = n, no errors and n rows, however the lookups and
\* writes of a batch interleave.
C13_FreshListAllCreated ==
    (/\ run[1].pc = "done"
     /\ run[1].before = <<>>
     /\ DistinctRealUrls(run[1].scrapedJobs)) =>
        /\ run[1].created = Len(run[1].scrapedJobs)
        /\ run[1].updated = 0
        /\ run[1].total = Len(run[1].scrapedJobs)
        /\ run[1].errors = <<>>
        /\ Len(store) = Len(run[1].scrapedJobs)

\* C13 witness: two scraped jobs with the URLs u1 and u2, one batch
C13_Witness ==
    /\ run[1].pc = "done"
    /\ run[1].before = <<>>
    /\ run[1].batchSize = 10
    /\ Len(run[1].scrapedJobs) = 2
    /\ {run[1].scrapedJobs[k].sourceUrl : k \in 1..2} = {"u1", "u2"}
    /\ run[1].created = 2

\* items of the current batch whose lookup or write is outstanding
InFlight(r) == {k \in 1..Len(r.itemPc) : r.itemPc[k] \in {"lookup", "write"}}

\* items of the list whose callback has started, and has settled
Started(r) == r.i + Len(r.itemPc)

Settled(r) == r.created + r.updated + Len(r.errors)

\* C14: while a run works on a batch, every item of the earlier batches has
\* settled (was created, updated or failed), the items started and not
\* settled are the ones in flight, and they are at most batchSize.
C14_BatchesAwaited ==
    run[1].pc = "batch" =>
        /\ Settled(run[1]) >= run[1].i
        /\ Started(run[1]) - Settled(run[1]) = Cardinality(InFlight(run[1]))
        /\ Cardinality(InFlight(run[1])) <= run[1].batchSize

\* C14 witness: batches of one; the item of the first batch failed and the
\* item of the second batch is in flight
C14_Witness ==
    /\ run[1].pc = "batch"
    /\ run[1].batchSize = 1
    /\ run[1].i = 1
    /\ Len(run[1].errors) = 1
    /\ InFlight(run[1]) = {1}

\* C17: after a run, no two rows have the same sourceUrl and no two rows
\* have the same (title, company, location).
C17_NoDuplicateRows ==
    run[1].pc = "done" =>
        \A a, b \in 1..Len(store) :
            a # b =>
                /\ (store[a].sourceUrl # "null" => store[a].sourceUrl # store[b].sourceUrl)
                /\ ~sameTriple(store[a], store[b])

(***************************************************************************)
(* Properties of fetchLatestJobs with several robots.                      *)
(***************************************************************************)
\* the jobs of the robots that succeeded, robot by robot
RECURSIVE SucceededJobs(_)
SucceededJobs(robots) ==
    IF robots = <<>> THEN <<>>
    ELSE (IF Head(robots).ok
          THEN [k \in 1..Len(Head(robots).rawJobs) |-> toScrapedJob(Head(robots).rawJobs[k])]
          ELSE <<>>)
         \o SucceededJobs(Tail(robots))

\* the jobs of the list that have no job of their triple before them
RECURSIVE FirstOccurrences(_, _)
FirstOccurrences(list, seen) ==
    IF list = <<>> THEN <<>>
    ELSE IF \E s \in seen : sameTriple(s, Head(list))
    THEN FirstOccurrences(Tail(list), seen)
    ELSE <<Head(list)>> \o FirstOccurrences(Tail(list), seen \cup {Head(list)})

SomeRobotFailed(env) ==
    /\ env.apiKey
    /\ Len(env.robots) >= 2
    /\ \E k \in 1..Len(env.robots) : ~env.robots[k].ok

\* C24: when several robots are configured and one of them failed,
\* fetchLatestJobs has returned (the run goes on with its list) the jobs of
\* the robots that succeeded, in order, each triple once, by its first
\* occurrence.
C24_RobotFailureIsolated ==
    (run[1].pc \in {"batch", "done"} /\ SomeRobotFailed(run[1].env)) =>
        run[1].scrapedJobs = FirstOccurrences(SucceededJobs(run[1].env.robots), {})

(***************************************************************************)
(* Properties of the job-sync configuration.                               *)
(***************************************************************************)
\* APIFY_KV_STORE_ID is unset, the API token is missing, the record does not
\* exist, the request fails, or the body is not valid JSON
NoUsableConfig(kv) ==
    \/ ~kv.storeId
    \/ ~kv.apiToken
    \/ kv.answer \in {"notFound", "error", "network", "badJson", "badText"}

\* the run ended in the outer catch of syncJobsToDatabase
FailedToSync(r) ==
    \E k \in 1..Len(r.errors) : r.errors[k].title = "Failed to sync jobs"

\* C25: no run ends in the outer catch because of getScraperConfig,
\* whatever the key-value store does; a run that found no usable
\* configuration goes on to fetch and works with batch size 10.
C25_ConfigNeverThrows ==
    run[1].pc # "idle" =>
        /\ ~FailedToSync(run[1])
        /\ NoUsableConfig(run[1].kv) => run[1].batchSize = 10

\* C25 witness: the store id is set and the API token is missing; the run
\* has created its two jobs in one batch of size 10
C25_Witness ==
    /\ run[1].pc = "done"
    /\ run[1].kv.storeId
    /\ ~run[1].kv.apiToken
    /\ run[1].batchSize = 10
    /\ Len(run[1].scrapedJobs) = 2
    /\ run[1].created + run[1].updated = 2
    /\ run[1].errors = <<>>

\* the current batch is the block of batchSize items that starts after
\* item i, or what is left of the list
BatchIsNextBlock(r) ==
    /\ r.batchSize > 0
    /\ r.i >= 0
    /\ r.i < Len(r.scrapedJobs)
    /\ Len(r.itemPc) = Min(r.batchSize, Len(r.scrapedJobs) - r.i)
    /\ \A k \in 1..Len(r.itemPc) : batchOf(r)[k] = r.scrapedJobs[r.i + k]

\* C28: for every batchSize that the stored configuration supplies, the
\* batches of a run are consecutive blocks of the fetched list, a finished
\* run has processed every fetched item once, and every run that has
\* fetched finishes.
C28_BatchesPartition ==
    /\ [](run[1].pc = "batch" => BatchIsNextBlock(run[1]))
    /\ [](run[1].pc = "done" =>
            run[1].created + run[1].updated + Len(run[1].errors) = Len(run[1].scrapedJobs))
    /\ <>(run[1].pc = "done")

(***************************************************************************)
(* Properties of overlapping reconciler runs.                              *)
(***************************************************************************)
\* C15: no step of any run, alone or overlapping another, removes a row:
\* every row id of the table before the step is a row id after it.
C15_NeverDeletes ==
    [][/\ Len(store') >= Len(store)
       /\ \A id \in 1..Len(store) : store'[id].id = store[id].id]_vars

\* C15 witness: two overlapping runs have finished, one updated a row that
\* the other created
C15_Witness ==
    /\ run[1].pc = "done"
    /\ run[2].pc = "done"
    /\ run[1].before = <<>>
    /\ run[2].before = <<>>
    /\ run[1].updated = 1
    /\ run[2].created = 1
    /\ Len(store) = 1

\* two scraped jobs have the same identity key: the same real sourceUrl, or
\* both are placeholders of the same triple
SameIdentityKey(a, b) ==
    IF Placeholder(a) \/ Placeholder(b)
    THEN Placeholder(a) /\ Placeholder(b) /\ sameTriple(a, b)
    ELSE a.sourceUrl = b.sourceUrl

\* the rows of the table that carry the identity key of job
RowsOfKey(st, job) ==
    {id \in 1..Len(st) :
        IF Placeholder(job)
        THEN st[id].sourceUrl = "#" /\ sameTriple(st[id], job)
        ELSE st[id].sourceUrl = job.sourceUrl}

\* C16: when two runs that both started on the empty table, each with one
\* posting, the two of the same identity key, have finished, the table has
\* a single row of that key and it holds the fields of one of the two
\* postings (of the write applied last).
C16_LastWriteWins ==
    (/\ run[1].pc = "done"
     /\ run[2].pc = "done"
     /\ run[1].before = <<>>
     /\ run[2].before = <<>>
     /\ Len(run[1].scrapedJobs) = 1
     /\ Len(run[2].scrapedJobs) = 1
     /\ SameIdentityKey(run[1].scrapedJobs[1], run[2].scrapedJobs[1])) =>
        /\ Cardinality(RowsOfKey(store, run[1].scrapedJobs[1])) = 1
        /\ \A id \in RowsOfKey(store, run[1].scrapedJobs[1]) :
              \/ SameContent(store[id], run[1].scrapedJobs[1])
              \/ SameContent(store[id], run[2].scrapedJobs[1])

(***************************************************************************)
(* Properties of the rate limiter.                                         *)
(***************************************************************************)
\* the handler invocations for client c in the window of its entry
WindowInvocations(c) ==
    LET start == rlStore[c].resetAt - rateLimiters[limiter].windowMs
    IN  Cardinality({k \in 1..Len(recent[c]) : recent[c][k] >= start})

\* the handler invocations for client c later than dateNow - windowMs
IntervalInvocations(c) ==
    LET start == dateNow - rateLimiters[limiter].windowMs
    IN  Cardinality({k \in 1..Len(recent[c]) : recent[c][k] > start})

\* C18 as claimed: in the interval of length windowMs that ends now the
\* handler was invoked at most maxRequests times for each client.
C18_AnyIntervalLimit ==
    \A c \in Clients : IntervalInvocations(c) <= rateLimiters[limiter].maxRequests

\* the window of the entry of client c is open and used up
WindowFull(c) ==
    /\ rlStore[c].present
    /\ dateNow <= rlStore[c].resetAt
    /\ rlStore[c].count >= rateLimiters[limiter].maxRequests

\* in the window of each entry (from the request that opened it at time t
\* to t + windowMs) the handler was invoked count <= maxRequests times, and
\* in the windowMs before now at most 2 * maxRequests - 1 times
WindowLimit ==
    \A c \in Clients :
        /\ (rlStore[c].present /\ dateNow <= rlStore[c].resetAt) =>
              /\ WindowInvocations(c) = rlStore[c].count
              /\ rlStore[c].count <= rateLimiters[limiter].maxRequests
        /\ Len(recent[c]) <= 2 * rateLimiters[limiter].maxRequests - 1

\* C18 as amended: per client and limiter the handler is invoked at most
\* maxRequests times per fixed window, a window being opened by the first
\* request after the previous window's end and lasting windowMs; a request
\* of a client whose window is used up is answered 429 and the handler is
\* not invoked; every other request invokes it.  Across the boundary of two
\* windows an interval of length windowMs holds up to 2 * maxRequests - 1
\* invocations.
C18_FixedWindowLimit ==
    [][/\ WindowLimit'
       /\ \A c \in Clients :
             /\ (recent'[c] # recent[c] /\ dateNow' = dateNow) =>
                   /\ ~WindowFull(c)
                   /\ resp'.client = c
                   /\ resp'.handled
             /\ (resp' # resp /\ resp'.client = c /\ WindowFull(c)) =>
                   /\ resp'.status = 429
                   /\ ~resp'.handled
                   /\ recent' = recent
             /\ (resp' # resp /\ resp'.client = c /\ ~WindowFull(c)) =>
                   /\ resp'.handled
                   /\ recent'[c] = Append(recent[c], dateNow)]_vars

\* C18 witness: the api limiter has let 19 requests of c1 through within
\* 10000 ms, 9 at the end of one window and 10 in the next, and has answered
\* the following one 429
C18_Witness ==
    /\ limiter = "api"
    /\ Len(recent["c1"]) = 19
    /\ IntervalInvocations("c1") = 19
    /\ rlStore["c1"].count = 10
    /\ resp.client = "c1"
    /\ resp.status = 429
    /\ ~resp.handled

(***************************************************************************)
(* Properties of the match and sync endpoints.                             *)
(***************************************************************************)
\* C19: a request to the match endpoint that the limiter let through is
\* answered 401 when it is unauthenticated, whatever else it holds, and 404
\* when it is authenticated, names a resume, the database answers, and the
\* resume is not found for the user or the job pool is empty.
C19_MatchStatuses ==
    (resp.route = "match" /\ resp.handled) =>
        /\ ~resp.req.authenticated => resp.status = 401
        /\ (/\ resp.req.authenticated
            /\ resp.req.hasResumeId
            /\ ~resp.req.dbThrows
            /\ (~resp.req.resumeFound \/ resp.req.jobsEmpty)) => resp.status = 404

\* C20: the reply to a sync request whose syncJobsToDatabase call returned
\* is 200 with success = true and the run's created, updated, total and
\* errors, also when errors is not empty; no such reply is 500.
C20_SyncReply ==
    last.pc = "done" =>
        /\ last.reply.status = 200
        /\ last.reply.success
        /\ last.reply.created = last.created
        /\ last.reply.updated = last.updated
        /\ last.reply.total = last.total
        /\ last.reply.errors = last.errors

\* C20 witness: a run in which an item failed was answered 200 with the
\* error in the body
C20_Witness ==
    /\ last.pc = "done"
    /\ last.faults = 1
    /\ last.reply.status = 200
    /\ Len(last.reply.errors) = 1
    /\ last.reply.total = 2

\* the update or create of item k of run p resolves in this step
WriteResolves(p, k) ==
    /\ run[p].pc = "batch"
    /\ k \in 1..Len(run[p].itemPc)
    /\ run[p].itemPc[k] = "write"
    /\ run'[p].pc = "batch"
    /\ k \in 1..Len(run'[p].itemPc)
    /\ run'[p].itemPc[k] = "done"
    /\ run'[p].errors = run[p].errors

\* the step changes row id only: id, createdAt and postedAt stay, updatedAt
\* is the time of the step, the other fields are those of the scraped job
UpdateFrame(id, job) ==
    /\ Len(store') = Len(store)
    /\ \A o \in 1..Len(store) : o # id => store'[o] = store[o]
    /\ store'[id].id = store[id].id
    /\ store'[id].createdAt = store[id].createdAt
    /\ store'[id].postedAt = store[id].postedAt
    /\ store'[id].updatedAt = clock
    /\ SameContent(store'[id], job)

\* the step appends one row, posted at the time of the step, and changes no
\* row the table had
CreateFrame(job) ==
    /\ Len(store') = Len(store) + 1
    /\ \A o \in 1..Len(store) : store'[o] = store[o]
    /\ store'[Len(store')].postedAt = clock
    /\ store'[Len(store')].title = job.title

\* C26: a write for a scraped job whose lookup found a row updates that row
\* only, keeping its id, createdAt and postedAt, setting updatedAt and taking
\* the other fields from the scraped job; a write whose lookup found no row
\* inserts exactly one row with postedAt the time of insertion and changes no
\* existing row.
C26_WriteFrame ==
    [][\A p \in Procs : \A k \in 1..MaxRawJobs :
          WriteResolves(p, k) =>
              IF run[p].existingJob[k] # 0
              THEN UpdateFrame(run[p].existingJob[k], batchOf(run[p])[k])
              ELSE CreateFrame(batchOf(run[p])[k])]_vars

\* C26 witness: the table has two rows, one of them updated after the time
\* it was posted and with other content than the other row's
C26_Witness ==
    /\ Len(store) = 2
    /\ \E id \in 1..2 :
          /\ store[id].updatedAt > store[id].postedAt
          /\ store[id].postedAt = store[id].createdAt
          /\ store[3 - id].updatedAt = store[3 - id].postedAt

\* C27: a run that fetched a non-empty list returns with total the number of
\* fetched items and created + updated + the number of error strings equal
\* to it, in whatever order the operations of the items of a batch resolved
\* or threw.
C27_CountsAddUp ==
    \A p \in Procs :
        (run[p].pc = "done" /\ Len(run[p].scrapedJobs) > 0) =>
            /\ run[p].total = Len(run[p].scrapedJobs)
            /\ run[p].created + run[p].updated + Len(run[p].errors) = run[p].total

\* C27 witness: both items were in one batch, the second item's operation
\* threw and the first item was written
C27_Witness ==
    /\ run[1].pc = "done"
    /\ Len(run[1].scrapedJobs) = 2
    /\ run[1].batchSize > 1
    /\ run[1].errors = <<errorMsg(run[1].scrapedJobs[2])>>
    /\ run[1].scrapedJobs[1].title # run[1].scrapedJobs[2].title
    /\ run[1].created + run[1].updated = 1
    /\ run[1].total = 2

\* a sourceUrl that is a URL: not absent, not null, not the sentinel "#"
RealUrl(u) == u \notin {"", "null", "#"}

\* C29: no step changes the sourceUrl of a row whose sourceUrl is a real
\* URL; in particular no update writes "#" or null over it.
C29_RealSourceUrlKept ==
    [][\A id \in 1..Len(store) :
          RealUrl(store[id].sourceUrl) =>
              store'[id].sourceUrl = store[id].sourceUrl]_vars

\* what user u can see of a table of resumes: the user's own rows
OwnView(table, u) ==
    [id \in DOMAIN table |->
        IF table[id].userId = u THEN table[id] ELSE [userId |-> "", content |-> ""]]

\* the request names a resume of another user
ForeignResume(req) ==
    /\ req.session # ""
    /\ req.resumeId \in DOMAIN resumes
    /\ resumes[req.resumeId].userId # req.session

\* C30: a request of either match endpoint that names another user's resume
\* hands nothing to scoreJobsForResume and, when the handler ran and the
\* database answered, is answered 404; whatever is handed to
\* scoreJobsForResume is the content of the named resume, which the session
\* user owns; and what the handler does is the same on every table of
\* resumes that has the same resumes of the session user.
C30_OwnResumeOnly ==
    matchCall.pc # "idle" =>
        LET req == matchCall.req
        IN  /\ ForeignResume(req) =>
                  /\ matchCall.prompts = <<>>
                  /\ (/\ matchCall.pc = "replied"
                      /\ matchCall.status # 429
                      /\ ~req.dbThrows) => matchCall.status = 404
            /\ matchCall.prompts # <<>> =>
                  /\ req.resumeId \in DOMAIN resumes
                  /\ resumes[req.resumeId].userId = req.session
                  /\ matchCall.prompts = <<resumes[req.resumeId].content>>
            /\ \A table \in ResumeTables :
                  OwnView(table, req.session) = OwnView(resumes, req.session) =>
                      endpoint(req, table) = endpoint(req, resumes)

\* C30 witness: the single-job endpoint answered 404 to a signed-in user who
\* named another user's resume, a resume that parses, with the job in the
\* database
C30_Witness ==
    /\ matchCall.pc = "replied"
    /\ matchCall.req.endpoint = "single"
    /\ matchCall.req.session = "u1"
    /\ matchCall.req.resumeId = "r2"
    /\ resumes["r2"] = [userId |-> "u2", content |-> "cA"]
    /\ matchCall.req.jobs = 1
    /\ ~matchCall.req.dbThrows
    /\ matchCall.status = 404
    /\ matchCall.prompts = <<>>

====
